---- MODULE Spec2Model ----
(***************************************************************************)
(* Model of the Home Assistant MCP server (main.go): the area-enrichment   *)
(* cache (updateAreaCache / enrichWithArea), the three-tier registry       *)
(* resolution (getAreas / getDevices / getEntityRegistry) and the read     *)
(* path (getAllStates / getEntityState).                                   *)
(*                                                                         *)
(* Go strings are sequences of one-character strings, so that ToLower,     *)
(* Split, HasPrefix and Contains are computed character by character.      *)
(***************************************************************************)
EXTENDS Integers, Sequences, FiniteSets, TLC

(***************************************************************************)
(* Bounds of the model.                                                    *)
(***************************************************************************)
\* number of tool calls, each running in its own goroutine
NumCallers == 2

(***************************************************************************)
(* strings                                                                 *)
(***************************************************************************)
\* the letters with an upper and a lower case: the ASCII letters and, for
\* the letters outside ASCII, A and a with diaeresis (U+00C4, U+00E4)
Upper == <<"A","B","C","D","E","F","G","H","I","J","K","L","M","N","O","P","Q","R","S","T","U","V","W","X","Y","Z","U+00C4">>
Lower == <<"a","b","c","d","e","f","g","h","i","j","k","l","m","n","o","p","q","r","s","t","u","v","w","x","y","z","U+00E4">>

\* the characters that UTF-8 encodes in two bytes; all others used here
\* are ASCII and take one byte
TwoByteChars == {"U+00C4", "U+00E4"}

\* len(s) of a Go string: the number of bytes of its UTF-8 encoding
RECURSIVE byteLen(_)
byteLen(s) ==
    IF s = << >>
    THEN 0
    ELSE (IF Head(s) \in TwoByteChars THEN 2 ELSE 1) + byteLen(Tail(s))

EmptyStr == << >>

ToLowerChar(c) ==
    IF \E i \in 1..Len(Upper) : Upper[i] = c
    THEN Lower[CHOOSE i \in 1..Len(Upper) : Upper[i] = c]
    ELSE c

\* strings.ToLower
ToLower(s) == [i \in 1..Len(s) |-> ToLowerChar(s[i])]

\* variant: spaces and underscores are exchanged
ReplaceSpaces_exchanged(s) ==
    [i \in 1..Len(s) |-> IF s[i] = " " THEN "_" ELSE IF s[i] = "_" THEN " " ELSE s[i]]

\* strings.ReplaceAll(s, " ", "_")
ReplaceSpaces(s) == [i \in 1..Len(s) |-> IF s[i] = " " THEN "_" ELSE s[i]]

\* strings.HasPrefix
HasPrefix(s, p) == Len(s) >= Len(p) /\ SubSeq(s, 1, Len(p)) = p

\* strings.Contains
Contains(s, sub) ==
    \E i \in 0..(Len(s) - Len(sub)) : SubSeq(s, i + 1, i + Len(sub)) = sub

\* strings.Split(s, " "): every single space separates two tokens, so that
\* two adjacent spaces give an empty token
RECURSIVE Split(_)
Split(s) ==
    IF \A i \in 1..Len(s) : s[i] # " "
    THEN <<s>>
    ELSE LET i == CHOOSE k \in 1..Len(s) :
                      s[k] = " " /\ \A j \in 1..(k - 1) : s[j] # " "
         IN  <<SubSeq(s, 1, i - 1)>> \o Split(SubSeq(s, i + 1, Len(s)))

\* the area id of an area name (main.go:677, 706, 843)
normalizeAreaID(name) == ReplaceSpaces(ToLower(name))

commonAreaWords ==
    { <<"r","o","o","m">>,
      <<"b","e","d","r","o","o","m">>,
      <<"b","a","t","h","r","o","o","m">>,
      <<"k","i","t","c","h","e","n">>,
      <<"o","f","f","i","c","e">>,
      <<"l","i","v","i","n","g">>,
      <<"d","i","n","i","n","g">>,
      <<"f","a","m","i","l","y">>,
      <<"m","a","s","t","e","r">>,
      <<"g","u","e","s","t">>,
      <<"h","a","l","l">>,
      <<"h","a","l","l","w","a","y">>,
      <<"e","n","t","r","a","n","c","e">>,
      <<"f","o","y","e","r">>,
      <<"l","o","b","b","y">>,
      <<"g","a","r","a","g","e">>,
      <<"b","a","s","e","m","e","n","t">>,
      <<"a","t","t","i","c">>,
      <<"c","l","o","s","e","t">>,
      <<"s","t","o","r","a","g","e">>,
      <<"p","o","r","c","h">>,
      <<"p","a","t","i","o">>,
      <<"d","e","c","k">>,
      <<"b","a","l","c","o","n","y">>,
      <<"t","e","r","r","a","c","e">> }

deviceNames ==
    { <<"l","o","l","i","n">>,
      <<"n","o","d","e","m","c","u">>,
      <<"e","s","p">>,
      <<"a","r","d","u","i","n","o">>,
      <<"s","o","n","o","f","f">>,
      <<"s","h","e","l","l","y">>,
      <<"z","i","g","b","e","e">>,
      <<"z","w","a","v","e">>,
      <<"w","i","f","i">>,
      <<"b","l","u","e","t","o","o","t","h">>,
      <<"s","e","n","s","o","r">>,
      <<"s","w","i","t","c","h">>,
      <<"l","i","g","h","t">>,
      <<"l","a","m","p">>,
      <<"b","u","l","b">>,
      <<"d","e","v","i","c","e">>,
      <<"m","o","d","u","l","e">>,
      <<"c","o","n","t","r","o","l","l","e","r">>,
      <<"h","u","b">> }

isCommonAreaWord(word) == ToLower(word) \in commonAreaWords

isDeviceName(name) == \E d \in deviceNames : Contains(ToLower(name), d)

lightPrefix == <<"l","i","g","h","t",".">>
switchPrefix == <<"s","w","i","t","c","h",".">>

\* the category test of main.go:670, 818, 990
isLightOrSwitch(entityID) ==
    HasPrefix(entityID, lightPrefix) \/ HasPrefix(entityID, switchPrefix)

(***************************************************************************)
(* records of the Home Assistant data (HAArea, HADevice, HAEntity,         *)
(* HAState).  Fields the code never reads (Picture, Aliases, device Name,  *)
(* LastChanged, LastUpdated) are left out.  NoArea is the nil *HAArea.     *)
(***************************************************************************)
NoArea == [nil |-> TRUE]

HAArea(id, name) == [AreaID |-> id, Name |-> name]
HADevice(id, areaID) == [ID |-> id, AreaID |-> areaID]
HAEntity(entityID, deviceID, areaID) ==
    [EntityID |-> entityID, DeviceID |-> deviceID, AreaID |-> areaID]
\* attrs: a function from attribute names to values; a value is
\* [isStr |-> TRUE, str |-> s] for a JSON string and [isStr |-> FALSE,
\* str |-> EmptyStr] for any other JSON value
HAState(entityID, state, attrs) ==
    [EntityID |-> entityID, State |-> state, Attributes |-> attrs, Area |-> NoArea]

StrAttr(s) == [isStr |-> TRUE, str |-> s]
OtherAttr == [isStr |-> FALSE, str |-> EmptyStr]

\* Go maps are functions with a finite domain
EmptyMap == [x \in {} |-> x]
MapPut(m, k, v) == [x \in (DOMAIN m) \cup {k} |-> IF x = k THEN v ELSE m[x]]
Range(f) == {f[x] : x \in DOMAIN f}

(***************************************************************************)
(* What the hub answers.  A socket fetch (getXViaWebSocket) either fails   *)
(* or yields the decoded list; an HTTP request (makeHARequest and the      *)
(* decoding of its body) fails in transport, answers a status other than   *)
(* 200, answers 200 with a body that does not decode, or answers 200 with  *)
(* a list.                                                                 *)
(***************************************************************************)
WSOutcomes(lists) ==
    {[err |-> TRUE, val |-> << >>]} \cup {[err |-> FALSE, val |-> l] : l \in lists}

RESTOutcomes(lists) ==
    {[kind |-> k, val |-> << >>] : k \in {"neterr", "status", "undecodable"}}
        \cup {[kind |-> "ok", val |-> l] : l \in lists}

\* the requests, as they are recorded in the trace of a fetch
ReqWSAreas == "ws config/area_registry/list"
ReqWSDevices == "ws config/device_registry/list"
ReqWSEntities == "ws config/entity_registry/list"
ReqRESTAreas1 == "GET /api/config/area_registry"
ReqRESTAreas2 == "GET /api/areas"
ReqRESTDevices == "GET /api/config/device_registry"
ReqRESTEntities == "GET /api/config/entity_registry"
ReqStates == "GET /api/states"

areaEndpoints == <<ReqRESTAreas1, ReqRESTAreas2>>

\* the result of a fetch: the error, the list and the requests it issued
Result(err, val, io) == [err |-> err, val |-> val, io |-> io]

(***************************************************************************)
(* heuristic fallback                                                      *)
(***************************************************************************)
\* variant: a name of one part has a candidate too, its only part
areaCandidate_onePart(nameStr) ==
    LET parts == Split(nameStr)
    IN  [has |-> TRUE,
         name |-> IF Len(parts) >= 3 /\ isCommonAreaWord(parts[2])
                  THEN parts[1] \o <<" ">> \o parts[2]
                  ELSE parts[1]]

\* the area candidate of a friendly name (main.go:692-702, 832-839): none
\* for a name of fewer than two parts
areaCandidate(nameStr) ==
    LET parts == Split(nameStr)
    IN  IF Len(parts) >= 2
        THEN [has |-> TRUE,
              name |-> IF Len(parts) >= 3 /\ isCommonAreaWord(parts[2])
                       THEN parts[1] \o <<" ">> \o parts[2]
                       ELSE parts[1]]
        ELSE [has |-> FALSE, name |-> EmptyStr]

\* len(possibleArea) > 3 && !isDeviceName(possibleArea) (main.go:704, 842)
acceptCandidate(possibleArea) ==
    byteLen(possibleArea) > 3 /\ ~isDeviceName(possibleArea)

\* the area name taken from the friendly name (main.go:688-713, 827-846):
\* [found |-> FALSE] or the accepted candidate
friendlyNameArea(attrs) ==
    IF "friendly_name" \in DOMAIN attrs /\ attrs["friendly_name"].isStr
    THEN LET cand == areaCandidate(attrs["friendly_name"].str)
         IN  IF cand.has /\ acceptCandidate(cand.name)
             THEN [found |-> TRUE, name |-> cand.name]
             ELSE [found |-> FALSE, name |-> EmptyStr]
    ELSE [found |-> FALSE, name |-> EmptyStr]

\* variant: a later state of the same id replaces the area
putIfAbsent_overwrites(areasMap, name) ==
    LET areaID == normalizeAreaID(name)
    IN  MapPut(areasMap, areaID, HAArea(areaID, name))

\* areasMap[areaID] = &HAArea{...} unless the id exists (main.go:678-683)
putIfAbsent(areasMap, name) ==
    LET areaID == normalizeAreaID(name)
    IN  IF areaID \in DOMAIN areasMap
        THEN areasMap
        ELSE MapPut(areasMap, areaID, HAArea(areaID, name))

\* one iteration of the loop of extractAreasFromStates (main.go:668-717)
areasOfState(areasMap, state) ==
    IF ~isLightOrSwitch(state.EntityID)
    THEN areasMap
    ELSE LET attrs == state.Attributes
             m1 == IF /\ "area" \in DOMAIN attrs
                      /\ attrs["area"].isStr
                      /\ attrs["area"].str # EmptyStr
                   THEN putIfAbsent(areasMap, attrs["area"].str)
                   ELSE areasMap
             cand == friendlyNameArea(attrs)
         IN  IF cand.found THEN putIfAbsent(m1, cand.name) ELSE m1

RECURSIVE areasMapOfStates(_, _)
areasMapOfStates(areasMap, states) ==
    IF states = << >>
    THEN areasMap
    ELSE areasMapOfStates(areasOfState(areasMap, Head(states)), Tail(states))

\* the slices a range over a Go map can produce: its values in any order
SlicesOfMap(m) ==
    LET n == Cardinality(DOMAIN m)
    IN  {s \in [1..n -> Range(m)] : \A i, j \in 1..n : s[i] = s[j] => i = j}

\* extractAreasFromStates: the set of results the states request st can give
extractAreasFromStates(st, io) ==
    IF st.kind # "ok"
    THEN {Result(TRUE, << >>, Append(io, ReqStates))}
    ELSE {Result(FALSE, s, Append(io, ReqStates)) :
              s \in SlicesOfMap(areasMapOfStates(EmptyMap, st.val))}

\* one iteration of the loop of extractEntityAreaFromStates (main.go:816-850)
RECURSIVE entitiesOfStates(_)
entitiesOfStates(states) ==
    IF states = << >>
    THEN << >>
    ELSE LET state == Head(states)
             cand == friendlyNameArea(state.Attributes)
             entity == HAEntity(state.EntityID, EmptyStr,
                                IF cand.found THEN normalizeAreaID(cand.name)
                                              ELSE EmptyStr)
         IN  IF ~isLightOrSwitch(state.EntityID)
             THEN entitiesOfStates(Tail(states))
             ELSE <<entity>> \o entitiesOfStates(Tail(states))

extractEntityAreaFromStates(st, io) ==
    IF st.kind # "ok"
    THEN Result(TRUE, << >>, Append(io, ReqStates))
    ELSE Result(FALSE, entitiesOfStates(st.val), Append(io, ReqStates))

(***************************************************************************)
(* the three registries                                                    *)
(***************************************************************************)
\* variant: the second REST candidate is asked before the first
areasViaREST_secondFirst(rests, i, st, io) ==
    IF rests[2].kind = "ok"
    THEN {Result(FALSE, rests[2].val, Append(io, areaEndpoints[2]))}
    ELSE IF rests[1].kind = "ok"
         THEN {Result(FALSE, rests[1].val,
                      io \o <<areaEndpoints[2], areaEndpoints[1]>>)}
         ELSE extractAreasFromStates(st, io \o <<areaEndpoints[2], areaEndpoints[1]>>)

\* the REST loop of getAreas (main.go:611-644), from candidate i on
RECURSIVE areasViaREST(_, _, _, _)
areasViaREST(rests, i, st, io) ==
    IF i > Len(areaEndpoints)
    THEN extractAreasFromStates(st, io)
    ELSE IF rests[i].kind = "ok"
         THEN {Result(FALSE, rests[i].val, Append(io, areaEndpoints[i]))}
         ELSE areasViaREST(rests, i + 1, st, Append(io, areaEndpoints[i]))

\* variant: an empty list from the socket is accepted for the areas too
getAreas_acceptsEmpty(ws, rests, st) ==
    IF ~ws.err /\ Len(ws.val) >= 0
    THEN {Result(FALSE, ws.val, <<ReqWSAreas>>)}
    ELSE areasViaREST(rests, 1, st, <<ReqWSAreas>>)

\* getAreas: ws is the answer of the socket, rests the answers of the two
\* REST candidates, st the answer of the states request
getAreas(ws, rests, st) ==
    IF ~ws.err /\ Len(ws.val) > 0
    THEN {Result(FALSE, ws.val, <<ReqWSAreas>>)}
    ELSE areasViaREST(rests, 1, st, <<ReqWSAreas>>)

\* variant: a status other than 200 is an error of the device fetch
getDevices_statusIsError(ws, rest) ==
    IF ~ws.err /\ Len(ws.val) >= 0
    THEN Result(FALSE, ws.val, <<ReqWSDevices>>)
    ELSE LET io == <<ReqWSDevices, ReqRESTDevices>>
         IN  IF rest.kind = "ok"
             THEN Result(FALSE, rest.val, io)
             ELSE Result(TRUE, << >>, io)

\* getDevices: ws is the answer of the socket, rest the answer of the REST
\* request (main.go:729-760)
getDevices(ws, rest) ==
    IF ~ws.err /\ Len(ws.val) >= 0
    THEN Result(FALSE, ws.val, <<ReqWSDevices>>)
    ELSE LET io == <<ReqWSDevices, ReqRESTDevices>>
         IN  CASE rest.kind = "neterr" -> Result(TRUE, << >>, io)
               [] rest.kind = "status" -> Result(FALSE, << >>, io)
               [] rest.kind = "undecodable" -> Result(TRUE, << >>, io)
               [] OTHER -> Result(FALSE, rest.val, io)

getEntityRegistry(ws, rest, st) ==
    IF ~ws.err /\ Len(ws.val) >= 0
    THEN Result(FALSE, ws.val, <<ReqWSEntities>>)
    ELSE LET io == <<ReqWSEntities, ReqRESTEntities>>
         IN  CASE rest.kind = "neterr" -> Result(TRUE, << >>, io)
               [] rest.kind = "status" -> extractEntityAreaFromStates(st, io)
               [] rest.kind = "undecodable" -> Result(TRUE, << >>, io)
               [] OTHER -> Result(FALSE, rest.val, io)

(***************************************************************************)
(* entity filter.  A pattern is its text and what regexp.Compile makes of  *)
(* it: compiles = FALSE for a malformed pattern, else the atoms of the     *)
(* expression ("lit" a literal character, "any" the dot, "anystar" the     *)
(* dot-star) and its anchors.                                              *)
(***************************************************************************)
Lit(c) == [k |-> "lit", c |-> c]
AnyChar == [k |-> "any", c |-> ""]
AnyStar == [k |-> "anystar", c |-> ""]

Pattern(text, compiles, atStart, atEnd, atoms) ==
    [text |-> text, compiles |-> compiles, atStart |-> atStart,
     atEnd |-> atEnd, atoms |-> atoms]

\* do the atoms match a prefix of s (all of s when toEnd)
RECURSIVE matchHere(_, _, _)
matchHere(atoms, s, toEnd) ==
    IF atoms = << >>
    THEN (~toEnd) \/ s = << >>
    ELSE LET a == Head(atoms)
         IN  CASE a.k = "lit" ->
                    s # << >> /\ Head(s) = a.c /\ matchHere(Tail(atoms), Tail(s), toEnd)
               [] a.k = "any" ->
                    s # << >> /\ matchHere(Tail(atoms), Tail(s), toEnd)
               [] OTHER ->
                    \E i \in 0..Len(s) :
                        matchHere(Tail(atoms), SubSeq(s, i + 1, Len(s)), toEnd)

\* regexp.MatchString(pattern, s): the error and the (unanchored) match
regexpMatchString(pattern, s) ==
    IF ~pattern.compiles
    THEN [err |-> TRUE, matched |-> FALSE]
    ELSE [err |-> FALSE,
          matched |-> IF pattern.atStart
                      THEN matchHere(pattern.atoms, s, pattern.atEnd)
                      ELSE \E i \in 0..Len(s) :
                               matchHere(pattern.atoms, SubSeq(s, i + 1, Len(s)),
                                         pattern.atEnd)]

isEntityBlacklisted(cfg, entityID) ==
    \E i \in 1..Len(cfg.EntityBlacklist) :
        LET pattern == cfg.EntityBlacklist[i]
            m == regexpMatchString(pattern, entityID)
        IN  pattern.text = entityID \/ (~m.err /\ m.matched)

\* variant: a pattern that does not compile admits every entity
isEntityWhitelisted_errorAdmits(cfg, entityID) ==
    \E i \in 1..Len(cfg.EntityFilter) :
        LET m == regexpMatchString(cfg.EntityFilter[i], entityID)
        IN  m.err \/ m.matched

isEntityWhitelisted(cfg, entityID) ==
    \E i \in 1..Len(cfg.EntityFilter) :
        LET m == regexpMatchString(cfg.EntityFilter[i], entityID)
        IN  ~m.err /\ m.matched

\* variant: the output is built back to front
RECURSIVE filterEntities_prepends(_, _)
filterEntities_prepends(cfg, entities) ==
    IF entities = << >>
    THEN << >>
    ELSE LET entity == Head(entities)
             rest == filterEntities_prepends(cfg, Tail(entities))
         IN  IF isEntityBlacklisted(cfg, entity.EntityID)
             THEN rest
             ELSE IF Len(cfg.EntityFilter) = 0
                       \/ isEntityWhitelisted(cfg, entity.EntityID)
                  THEN rest \o <<entity>>
                  ELSE rest

\* variant: an entity that the whitelist matches passes, whatever the
\* blacklist says
RECURSIVE filterEntities_whitelistFirst(_, _)
filterEntities_whitelistFirst(cfg, entities) ==
    IF entities = << >>
    THEN << >>
    ELSE LET entity == Head(entities)
             rest == filterEntities_whitelistFirst(cfg, Tail(entities))
         IN  IF isEntityWhitelisted(cfg, entity.EntityID)
             THEN <<entity>> \o rest
             ELSE IF isEntityBlacklisted(cfg, entity.EntityID)
                       \/ Len(cfg.EntityFilter) # 0
                  THEN rest
                  ELSE <<entity>> \o rest

\* filterEntities (main.go:568-590)
RECURSIVE filterEntities(_, _)
filterEntities(cfg, entities) ==
    IF entities = << >>
    THEN << >>
    ELSE LET entity == Head(entities)
             rest == filterEntities(cfg, Tail(entities))
         IN  IF isEntityBlacklisted(cfg, entity.EntityID)
             THEN rest
             ELSE IF Len(cfg.EntityFilter) = 0
                  THEN <<entity>> \o rest
                  ELSE IF isEntityWhitelisted(cfg, entity.EntityID)
                       THEN <<entity>> \o rest
                       ELSE rest

\* the category filter of getAllStates (main.go:988-993)
RECURSIVE lightsAndSwitches(_)
lightsAndSwitches(states) ==
    IF states = << >>
    THEN << >>
    ELSE IF isLightOrSwitch(Head(states).EntityID)
         THEN <<Head(states)>> \o lightsAndSwitches(Tail(states))
         ELSE lightsAndSwitches(Tail(states))

(***************************************************************************)
(* The hub's data: the identifiers, the registries and the states payloads *)
(* the hub answers with.  Entity, device and area ids are unique within a  *)
(* registry, as they are in Home Assistant.                                *)
(***************************************************************************)
lightA == <<"l","i","g","h","t",".","a">>
switchC == <<"s","w","i","t","c","h",".","c">>
sensorT == <<"s","e","n","s","o","r",".","t">>
dev1 == <<"d","e","v","1">>
dev2 == <<"d","e","v","2">>
kitchen == <<"k","i","t","c","h","e","n">>
office == <<"o","f","f","i","c","e">>
nameKitchen == <<"K","i","t","c","h","e","n">>
nameOffice == <<"O","f","f","i","c","e">>
nameLivingRoomLamp == <<"L","i","v","i","n","g"," ","R","o","o","m"," ","L","a","m","p"," ","1">>
nameSonoffSwitch == <<"S","o","n","o","f","f"," ","S","w","i","t","c","h"," ","1">>
nameKitchenSensor == <<"K","i","t","c","h","e","n"," ","S","e","n","s","o","r">>

AreaLists ==
    { << >>,
      <<HAArea(kitchen, nameKitchen), HAArea(office, nameOffice)>> }

DeviceLists ==
    { << >>,
      <<HADevice(dev1, office), HADevice(dev2, EmptyStr)>> }

EntityLists ==
    { << >>,
      <<HAEntity(lightA, dev1, EmptyStr)>>,
      <<HAEntity(lightA, dev1, kitchen), HAEntity(switchC, dev2, EmptyStr)>> }

stLivingRoomLamp ==
    HAState(lightA, "off",
            [a \in {"area", "friendly_name"} |->
                IF a = "area" THEN StrAttr(nameOffice) ELSE StrAttr(nameLivingRoomLamp)])
stSonoffSwitch ==
    HAState(switchC, "on", [a \in {"friendly_name"} |-> StrAttr(nameSonoffSwitch)])
stKitchenSensor ==
    HAState(sensorT, "21", [a \in {"friendly_name"} |-> StrAttr(nameKitchenSensor)])

\* the states payloads of the hub
StateLists ==
    { <<stLivingRoomLamp, stSonoffSwitch, stKitchenSensor>> }

AllStates == UNION {Range(l) : l \in StateLists}

\* the entity ids get_entity_state is called with
RequestedIds == {lightA}

\* the configurations the server is started with (h.config)
patLightA ==
    Pattern(lightA, TRUE, FALSE, FALSE,
            <<Lit("l"), Lit("i"), Lit("g"), Lit("h"), Lit("t"), AnyChar, Lit("a")>>)
\* ^switch\..*
patSwitches ==
    Pattern(<<"^","s","w","i","t","c","h","\\",".",".","*">>, TRUE, TRUE, FALSE,
            <<Lit("s"), Lit("w"), Lit("i"), Lit("t"), Lit("c"), Lit("h"), Lit("."), AnyStar>>)
\* an unclosed bracket does not compile
patMalformed == Pattern(<<"[">>, FALSE, FALSE, FALSE, << >>)

Config(blacklist, whitelist) ==
    [EntityBlacklist |-> blacklist, EntityFilter |-> whitelist]

Configs ==
    { Config(<<patSwitches, patMalformed>>, <<patLightA>>) }

(***************************************************************************)
(* The state machine.  Each caller is one tool call running getAllStates   *)
(* or getEntityState: the states request, then enrichWithArea, which runs  *)
(* updateAreaCache under the exclusive lock and the lookup under the       *)
(* shared lock.                                                            *)
(*                                                                         *)
(* The code reads the clock and areaCache.lastUpdate only to compute       *)
(* time.Since(areaCache.lastUpdate) and to compare it with the threshold:  *)
(* sinceUpdate is that duration in minutes, saturated at the threshold.    *)
(* It is at the threshold for the zero lastUpdate of a cache that was      *)
(* never refreshed, 0 when lastUpdate is set to time.Now(), and grows as   *)
(* time passes.                                                            *)
(***************************************************************************)
VARIABLES
    areaCache,    \* the maps areas, devices, entities of areaCache
    sinceUpdate,  \* time.Since(areaCache.lastUpdate)
    mu,           \* areaCache.mu: the writer (NoOne if none) and the readers
    config,       \* h.config
    pc,           \* where each caller is
    states,       \* the local states of each caller
    ret,          \* what the operation of each caller returned
    locals,       \* the locals areas, devices, entities of updateAreaCache
    fetched,      \* the registries the running updateAreaCache has fetched
    failed,       \* the registries whose fetch failed in the latest
                  \* updateAreaCache that found the cache stale
    replaced,     \* the maps the latest updateAreaCache that found the cache
                  \* stale has replaced
    call,         \* a function of the server and the arguments it is applied to
    result,       \* what that function returned
    frame,        \* the locals of a running controlMultipleEntitiesHandler
    socket        \* the socket fetches of a refresh: where the refresh is, its
                  \* connections and the frame the hub has sent

vars == <<areaCache, sinceUpdate, mu, config, pc, states, ret, locals, fetched,
          failed, replaced, call, result, frame, socket>>

(***************************************************************************)
(* the area cache                                                          *)
(***************************************************************************)
\* the staleness threshold, in minutes (5*time.Minute)
Threshold == 5

\* variants of the staleness test: one that never finds the cache fresh, and
\* one whose window is a minute short
isFresh_never(since) == FALSE
isFresh_short(since) == since < Threshold - 1

\* time.Since(areaCache.lastUpdate) < 5*time.Minute
isFresh(since) == since < Threshold

\* areaCache.areas[areas[i].AreaID] = &areas[i], over a fresh map
RECURSIVE putAreas(_, _)
putAreas(m, areas) ==
    IF areas = << >>
    THEN m
    ELSE putAreas(MapPut(m, Head(areas).AreaID, Head(areas)), Tail(areas))

\* variant: the areas are put into the map of the previous refresh
buildAreasMap_keepOld(areas) == putAreas(areaCache.areas, areas)

buildAreasMap(areas) == putAreas(EmptyMap, areas)

\* variant: a device without an area is stored too
putDevice_keepsEmpty(m, device) == MapPut(m, device.ID, device.AreaID)

\* one device of the loop: stored unless it has no area (main.go:906-908)
putDevice(m, device) ==
    IF device.AreaID # EmptyStr
    THEN MapPut(m, device.ID, device.AreaID)
    ELSE m

RECURSIVE putDevices(_, _)
putDevices(m, devices) ==
    IF devices = << >>
    THEN m
    ELSE putDevices(putDevice(m, Head(devices)), Tail(devices))

buildDevicesMap(devices) == putDevices(EmptyMap, devices)

\* variants of the binding: one that asks the device first, one that never
\* asks the device
bindEntity_deviceFirst(m, devicesMap, entity) ==
    IF entity.DeviceID # EmptyStr /\ entity.DeviceID \in DOMAIN devicesMap
    THEN MapPut(m, entity.EntityID, devicesMap[entity.DeviceID])
    ELSE IF entity.AreaID # EmptyStr
         THEN MapPut(m, entity.EntityID, entity.AreaID)
         ELSE m
bindEntity_directOnly(m, devicesMap, entity) ==
    IF entity.AreaID # EmptyStr
    THEN MapPut(m, entity.EntityID, entity.AreaID)
    ELSE m

\* the binding of one entity registration (main.go:923-931)
bindEntity(m, devicesMap, entity) ==
    IF entity.AreaID # EmptyStr
    THEN MapPut(m, entity.EntityID, entity.AreaID)
    ELSE IF entity.DeviceID # EmptyStr /\ entity.DeviceID \in DOMAIN devicesMap
         THEN MapPut(m, entity.EntityID, devicesMap[entity.DeviceID])
         ELSE m

RECURSIVE putEntities(_, _, _)
putEntities(m, devicesMap, entities) ==
    IF entities = << >>
    THEN m
    ELSE putEntities(bindEntity(m, devicesMap, Head(entities)), devicesMap,
                     Tail(entities))

\* variant: the entities are put into the map of the previous refresh
buildEntitiesMap_keepOld(devicesMap, entities) ==
    putEntities(areaCache.entities, devicesMap, entities)

buildEntitiesMap(devicesMap, entities) == putEntities(EmptyMap, devicesMap, entities)

\* variant: an entity bound to an area id the areas map does not have gets
\* an Area made of the id
lookupArea_madeOfID(cache, state) ==
    IF state.EntityID \in DOMAIN cache.entities
    THEN LET areaID == cache.entities[state.EntityID]
         IN  IF areaID \in DOMAIN cache.areas
             THEN [state EXCEPT !.Area = cache.areas[areaID]]
             ELSE [state EXCEPT !.Area = HAArea(areaID, areaID)]
    ELSE state

\* the lookup of enrichWithArea for one state (main.go:955-960)
lookupArea(cache, state) ==
    IF state.EntityID \in DOMAIN cache.entities
    THEN IF cache.entities[state.EntityID] \in DOMAIN cache.areas
         THEN [state EXCEPT !.Area = cache.areas[cache.entities[state.EntityID]]]
         ELSE state
    ELSE state

\* the part of enrichWithArea that runs under the shared lock
enrichStates(cache, sts) ==
    IF Cardinality(DOMAIN cache.areas) = 0 /\ Cardinality(DOMAIN cache.entities) = 0
    THEN sts
    ELSE [i \in 1..Len(sts) |-> lookupArea(cache, sts[i])]

(***************************************************************************)
(* the tool calls                                                          *)
(***************************************************************************)
Callers == 1..NumCallers
NoOne == 0
Registries == {"areas", "devices", "entities"}
NoLocals == [areas |-> << >>, devices |-> << >>, entities |-> << >>]
NoRet == [err |-> FALSE, states |-> << >>]
\* no function is being applied, nothing was returned
NoCall == [fn |-> "none"]
NoResult == [none |-> TRUE]
Returned(v) == [returned |-> v]
\* no controlMultipleEntitiesHandler is running
NoFrame == [pc |-> "none"]
\* no refresh is being followed through its socket fetches
NoSocket == [pc |-> "none"]

\* the server after main has built it: an empty cache that was never
\* refreshed, and no tool call yet
InitServer ==
    /\ areaCache = [areas |-> EmptyMap, devices |-> EmptyMap, entities |-> EmptyMap]
    /\ sinceUpdate = Threshold
    /\ mu = [writer |-> NoOne, readers |-> {}]
    /\ config \in Configs
    /\ pc = [p \in Callers |-> "idle"]
    /\ states = [p \in Callers |-> << >>]
    /\ ret = [p \in Callers |-> NoRet]
    /\ locals = NoLocals
    /\ fetched = {}
    /\ failed = {}
    /\ replaced = {}

Init ==
    /\ InitServer
    /\ call = NoCall
    /\ result = NoResult
    /\ frame = NoFrame
    /\ socket = NoSocket

serverUnchanged ==
    UNCHANGED <<areaCache, sinceUpdate, mu, config, pc, states, ret, locals,
                fetched, failed, replaced, socket>>

cacheUnchanged ==
    UNCHANGED <<areaCache, sinceUpdate, locals, fetched, failed, replaced>>

\* a minute passes
Tick ==
    /\ sinceUpdate < Threshold
    /\ sinceUpdate' = sinceUpdate + 1
    /\ UNCHANGED <<areaCache, locals, fetched, failed, replaced>>
    /\ UNCHANGED <<mu, config, call, result, frame, socket, pc, states, ret>>

\* variant: the read fails when a state could not be enriched
readResult_needsArea(enriched) ==
    [err |-> \E i \in 1..Len(enriched) : enriched[i].Area = NoArea,
     states |-> enriched]

\* return result, nil (main.go:1001, 1030)
readResult(enriched) == [err |-> FALSE, states |-> enriched]

\* getAllStates up to the call of enrichWithArea (main.go:967-995)
getAllStates(p) ==
    /\ pc[p] = "idle"
    /\ \E st \in RESTOutcomes(StateLists) :
         /\ IF st.kind # "ok"
            THEN /\ pc' = [pc EXCEPT ![p] = "done"]
                 /\ ret' = [ret EXCEPT ![p] = [err |-> TRUE, states |-> << >>]]
                 /\ UNCHANGED states
            ELSE /\ pc' = [pc EXCEPT ![p] = "lock"]
                 /\ states' = [states EXCEPT ![p] =
                                   filterEntities(config, lightsAndSwitches(st.val))]
                 /\ UNCHANGED ret
    /\ cacheUnchanged
    /\ UNCHANGED <<mu, config, call, result, frame, socket>>

\* getEntityState up to the call of enrichWithArea (main.go:1004-1027); the
\* hub answers 404, another status, an undecodable body or the state
getEntityState(p) ==
    /\ pc[p] = "idle"
    /\ \E entityID \in RequestedIds :
       \E kind \in {"neterr", "notfound", "status", "undecodable", "ok"} :
       \E st \in {x \in AllStates : x.EntityID = entityID} :
         /\ IF kind # "ok"
            THEN /\ pc' = [pc EXCEPT ![p] = "done"]
                 /\ ret' = [ret EXCEPT ![p] = [err |-> TRUE, states |-> << >>]]
                 /\ UNCHANGED states
            ELSE /\ pc' = [pc EXCEPT ![p] = "lock"]
                 /\ states' = [states EXCEPT ![p] = <<st>>]
                 /\ UNCHANGED ret
    /\ cacheUnchanged
    /\ UNCHANGED <<mu, config, call, result, frame, socket>>

\* variants of the locks: a Lock that does not wait for the writer, an RLock
\* that does not wait for it
canLock_ignoresWriter(p) == mu.readers = {}
canRLock_ignoresWriter(p) == TRUE

\* areaCache.mu.Lock() is granted
canLock(p) == mu.writer = NoOne /\ mu.readers = {}

\* areaCache.mu.RLock() is granted
canRLock(p) == mu.writer = NoOne

\* updateAreaCache: areaCache.mu.Lock() (main.go:872)
Lock(p) ==
    /\ pc[p] = "lock"
    /\ canLock(p)
    /\ mu' = [mu EXCEPT !.writer = p]
    /\ pc' = [pc EXCEPT ![p] = "check"]
    /\ cacheUnchanged
    /\ UNCHANGED <<config, call, result, frame, socket, states, ret>>

\* the staleness check (main.go:876-880)
Check(p) ==
    /\ pc[p] = "check"
    /\ IF isFresh(sinceUpdate)
       THEN /\ pc' = [pc EXCEPT ![p] = "return"]
            /\ UNCHANGED <<failed, replaced>>
       ELSE /\ pc' = [pc EXCEPT ![p] = "getAreas"]
            /\ failed' = {}
            /\ replaced' = {}
    /\ UNCHANGED <<areaCache, sinceUpdate, locals, fetched>>
    /\ UNCHANGED <<mu, config, call, result, frame, socket, states, ret>>

\* variant: updateAreaCache returns at the first fetch that fails
afterFetch_abort(err, next) == IF err THEN "return" ELSE next

\* where updateAreaCache goes on after a fetch that returned err: to the
\* rebuilding of the map, whatever err is (main.go:884-888, 898-902, 914-918)
afterFetch(err, next) == next

\* areas, err := h.getAreas(), with the empty list for an error
GetAreas(p) ==
    /\ pc[p] = "getAreas"
    /\ \E ws \in WSOutcomes(AreaLists) :
       \E r1, r2 \in RESTOutcomes(AreaLists) :
       \E st \in RESTOutcomes(StateLists) :
       \E r \in getAreas(ws, <<r1, r2>>, st) :
         /\ locals' = [locals EXCEPT !.areas = IF r.err THEN << >> ELSE r.val]
         /\ failed' = IF r.err THEN failed \cup {"areas"} ELSE failed
         /\ pc' = [pc EXCEPT ![p] = afterFetch(r.err, "buildAreas")]
    /\ fetched' = fetched \cup {"areas"}
    /\ UNCHANGED <<areaCache, sinceUpdate, replaced>>
    /\ UNCHANGED <<mu, config, call, result, frame, socket, states, ret>>

\* clear and rebuild the areas map (main.go:890-894)
BuildAreas(p) ==
    /\ pc[p] = "buildAreas"
    /\ areaCache' = [areaCache EXCEPT !.areas = buildAreasMap(locals.areas)]
    /\ replaced' = replaced \cup {"areas"}
    /\ pc' = [pc EXCEPT ![p] = "getDevices"]
    /\ UNCHANGED <<sinceUpdate, locals, fetched, failed>>
    /\ UNCHANGED <<mu, config, call, result, frame, socket, states, ret>>

\* devices, err := h.getDevices(), with the empty list for an error
GetDevices(p) ==
    /\ pc[p] = "getDevices"
    /\ \E ws \in WSOutcomes(DeviceLists) :
       \E rest \in RESTOutcomes(DeviceLists) :
         LET r == getDevices(ws, rest)
         IN  /\ locals' = [locals EXCEPT !.devices = IF r.err THEN << >> ELSE r.val]
             /\ failed' = IF r.err THEN failed \cup {"devices"} ELSE failed
             /\ pc' = [pc EXCEPT ![p] = afterFetch(r.err, "buildDevices")]
    /\ fetched' = fetched \cup {"devices"}
    /\ UNCHANGED <<areaCache, sinceUpdate, replaced>>
    /\ UNCHANGED <<mu, config, call, result, frame, socket, states, ret>>

\* clear and rebuild the devices map (main.go:904-910)
BuildDevices(p) ==
    /\ pc[p] = "buildDevices"
    /\ areaCache' = [areaCache EXCEPT !.devices = buildDevicesMap(locals.devices)]
    /\ replaced' = replaced \cup {"devices"}
    /\ pc' = [pc EXCEPT ![p] = "getEntityRegistry"]
    /\ UNCHANGED <<sinceUpdate, locals, fetched, failed>>
    /\ UNCHANGED <<mu, config, call, result, frame, socket, states, ret>>

\* entities, err := h.getEntityRegistry(), with the empty list for an error
GetEntityRegistry(p) ==
    /\ pc[p] = "getEntityRegistry"
    /\ \E ws \in WSOutcomes(EntityLists) :
       \E rest \in RESTOutcomes(EntityLists) :
       \E st \in RESTOutcomes(StateLists) :
         LET r == getEntityRegistry(ws, rest, st)
         IN  /\ locals' = [locals EXCEPT !.entities = IF r.err THEN << >> ELSE r.val]
             /\ failed' = IF r.err THEN failed \cup {"entities"} ELSE failed
             /\ pc' = [pc EXCEPT ![p] = afterFetch(r.err, "buildEntities")]
    /\ fetched' = fetched \cup {"entities"}
    /\ UNCHANGED <<areaCache, sinceUpdate, replaced>>
    /\ UNCHANGED <<mu, config, call, result, frame, socket, states, ret>>

\* clear and rebuild the entities map, then areaCache.lastUpdate =
\* time.Now() (main.go:920-936)
BuildEntities(p) ==
    /\ pc[p] = "buildEntities"
    /\ areaCache' = [areaCache EXCEPT
                        !.entities = buildEntitiesMap(areaCache.devices, locals.entities)]
    /\ sinceUpdate' = 0
    /\ replaced' = replaced \cup {"entities"}
    /\ pc' = [pc EXCEPT ![p] = "return"]
    /\ UNCHANGED <<locals, fetched, failed>>
    /\ UNCHANGED <<mu, config, call, result, frame, socket, states, ret>>

\* updateAreaCache returns nil: the deferred areaCache.mu.Unlock() runs
\* (main.go:873, 877, 936)
Unlock(p) ==
    /\ pc[p] = "return"
    /\ mu' = [mu EXCEPT !.writer = NoOne]
    /\ locals' = NoLocals
    /\ fetched' = {}
    /\ pc' = [pc EXCEPT ![p] = "rlock"]
    /\ UNCHANGED <<areaCache, sinceUpdate, failed, replaced>>
    /\ UNCHANGED <<config, call, result, frame, socket, states, ret>>

\* enrichWithArea: areaCache.mu.RLock() (main.go:943)
RLock(p) ==
    /\ pc[p] = "rlock"
    /\ canRLock(p)
    /\ mu' = [mu EXCEPT !.readers = @ \cup {p}]
    /\ pc' = [pc EXCEPT ![p] = "enrich"]
    /\ cacheUnchanged
    /\ UNCHANGED <<config, call, result, frame, socket, states, ret>>

\* the lookups of enrichWithArea (main.go:946-964)
Enrich(p) ==
    /\ pc[p] = "enrich"
    /\ states' = [states EXCEPT ![p] = enrichStates(areaCache, states[p])]
    /\ pc' = [pc EXCEPT ![p] = "runlock"]
    /\ cacheUnchanged
    /\ UNCHANGED <<mu, config, call, result, frame, socket, ret>>

\* the deferred areaCache.mu.RUnlock(), and the return of the operation
\* (main.go:944, 1000-1001, 1030)
RUnlock(p) ==
    /\ pc[p] = "runlock"
    /\ mu' = [mu EXCEPT !.readers = @ \ {p}]
    /\ ret' = [ret EXCEPT ![p] = readResult(states[p])]
    /\ states' = [states EXCEPT ![p] = << >>]
    /\ pc' = [pc EXCEPT ![p] = "done"]
    /\ cacheUnchanged
    /\ UNCHANGED <<config, call, result, frame, socket>>

Next ==
    \/ Tick
    \/ \E p \in Callers : getAllStates(p)
    \/ \E p \in Callers : getEntityState(p)
    \/ \E p \in Callers : Lock(p)
    \/ \E p \in Callers : Check(p)
    \/ \E p \in Callers : GetAreas(p)
    \/ \E p \in Callers : BuildAreas(p)
    \/ \E p \in Callers : GetDevices(p)
    \/ \E p \in Callers : BuildDevices(p)
    \/ \E p \in Callers : GetEntityRegistry(p)
    \/ \E p \in Callers : BuildEntities(p)
    \/ \E p \in Callers : Unlock(p)
    \/ \E p \in Callers : RLock(p)
    \/ \E p \in Callers : Enrich(p)
    \/ \E p \in Callers : RUnlock(p)

Spec == Init /\ [][Next]_vars

(***************************************************************************)
(* control of an entity.  An error and a log line are the format and the   *)
(* values fmt.Errorf and logger.Printf are given, each value under the     *)
(* name of the expression it comes from; nil is the absent error.          *)
(***************************************************************************)
nil == [nil |-> TRUE]
Arg(of, val) == [of |-> of, val |-> val]
Errorf(format, args) == [format |-> format, args |-> args]
Printf(format, args) == [format |-> format, args |-> args]

\* the status of the response that is a success
StatusOK == 200

\* what the hub answers to a POST: no response, or a response of a status
PostStatuses == {StatusOK, 201, 500}
PostOutcomes ==
    {[kind |-> "neterr", status |-> 0]}
        \cup {[kind |-> "status", status |-> s] : s \in PostStatuses}

\* the path /api/services/<domain>/<service>
ServiceEndpoint(domain, service) == [domain |-> domain, service |-> service]

\* the error of httpClient.Do: the method, the URL and the cause
transportError(method, endpoint) ==
    Errorf("%s %q: %v",
           <<Arg("method", method), Arg("url", endpoint), Arg("cause", "dial")>>)

\* makeHARequest with a body: the request, once, and the response or the
\* error of the client
makeHARequest(method, endpoint, body, outcome) ==
    LET request == [method |-> method, endpoint |-> endpoint, body |-> body]
        making == Printf("Making %s request to: %s",
                         <<Arg("method", method), Arg("url", endpoint)>>)
        headers == Printf("Request headers: %+v", <<Arg("req.Header", "headers")>>)
    IN  IF outcome.kind = "neterr"
        THEN [err |-> transportError(method, endpoint),
              StatusCode |-> 0,
              io |-> <<request>>,
              log |-> <<making, headers,
                        Printf("HTTP request failed: %v",
                               <<Arg("err", transportError(method, endpoint))>>)>>]
        ELSE [err |-> nil,
              StatusCode |-> outcome.status,
              io |-> <<request>>,
              log |-> <<making, headers,
                        Printf("Response status: %d %s",
                               <<Arg("resp.StatusCode", outcome.status)>>)>>]

\* variant: every action that is not an off is an on
serviceOf_onByDefault(action) ==
    IF action \in {"off", "turn_off"} THEN "turn_off" ELSE "turn_on"

\* the service of an action, "" for an action that has none
serviceOf(action) ==
    CASE action \in {"on", "turn_on"} -> "turn_on"
      [] action \in {"off", "turn_off"} -> "turn_off"
      [] OTHER -> ""

\* the domain of an entity id, "" for an id of another prefix
domainOf(entityID) ==
    IF HasPrefix(entityID, lightPrefix)
    THEN "light"
    ELSE IF HasPrefix(entityID, switchPrefix) THEN "switch" ELSE ""

\* variant: a response of any status is a success
isSuccess_anyStatus(StatusCode) == TRUE

\* the status of a response that makes the control a success
isSuccess(StatusCode) == StatusCode = StatusOK

\* variant: the error of a status names the entity and the duration too
statusError_full(StatusCode, entityID, action, duration) ==
    Errorf("HA API returned status %d for %s (%s) after %v",
           <<Arg("resp.StatusCode", StatusCode), Arg("entityID", entityID),
             Arg("action", action), Arg("duration", duration)>>)

\* the error of a response of another status than 200
statusError(StatusCode, entityID, action, duration) ==
    Errorf("HA API returned status %d", <<Arg("resp.StatusCode", StatusCode)>>)

\* controlEntity: the error it returns, the requests it issued and the
\* lines it logged; outcome is the hub's answer to the POST, duration the
\* time the POST took
controlEntity(entityID, action, outcome, duration) ==
    LET controlling == Printf("Controlling entity %s: %s",
                              <<Arg("entityID", entityID), Arg("action", action)>>)
        domain == domainOf(entityID)
        service == serviceOf(action)
        r == makeHARequest("POST", ServiceEndpoint(domain, service),
                           [entity_id |-> entityID], outcome)
    IN  IF domain = ""
        THEN [err |-> Errorf("unsupported entity type for %s",
                             <<Arg("entityID", entityID)>>),
              io |-> << >>, log |-> <<controlling>>]
        ELSE IF service = ""
        THEN [err |-> Errorf("unsupported action: %s", <<Arg("action", action)>>),
              io |-> << >>, log |-> <<controlling>>]
        ELSE IF r.err # nil
        THEN [err |-> r.err, io |-> r.io,
              log |-> <<controlling>> \o r.log
                        \o <<Printf("HA API request failed for %s after %v: %v",
                                    <<Arg("entityID", entityID),
                                      Arg("duration", duration),
                                      Arg("err", r.err)>>)>>]
        ELSE IF ~isSuccess(r.StatusCode)
        THEN [err |-> statusError(r.StatusCode, entityID, action, duration),
              io |-> r.io,
              log |-> <<controlling>> \o r.log
                        \o <<Printf("HA API returned status %d for %s after %v",
                                    <<Arg("resp.StatusCode", r.StatusCode),
                                      Arg("entityID", entityID),
                                      Arg("duration", duration)>>)>>]
        ELSE [err |-> nil, io |-> r.io,
              log |-> <<controlling>> \o r.log
                        \o <<Printf("Successfully controlled %s (%s) in %v",
                                    <<Arg("entityID", entityID),
                                      Arg("action", action),
                                      Arg("duration", duration)>>)>>]

(***************************************************************************)
(* the tool handlers.  A handler returns a result and an error; the result *)
(* is a text or an error text (mcp.NewToolResultText, NewToolResultError). *)
(***************************************************************************)
Sprintf(format, args) == [format |-> format, args |-> args]
NewToolResultText(text) == [IsError |-> FALSE, text |-> text]
NewToolResultError(text) == [IsError |-> TRUE, text |-> text]
HandlerReturn(res, err) == [result |-> res, err |-> err]

\* variant: a failure is returned as the error of the handler
toolError_asError(text) == HandlerReturn(nil, text)

\* return mcp.NewToolResultError(text), nil
toolError(text) == HandlerReturn(NewToolResultError(text), nil)

\* return mcp.NewToolResultText(text), nil
toolText(text) == HandlerReturn(NewToolResultText(text), nil)

\* an argument that is the string a, and one that is missing or no string
StrArg(a) == [isStr |-> TRUE, str |-> a]
NoStrArg == [isStr |-> FALSE, str |-> ""]

\* an element of the entities array: an object with its members entity_id
\* and action, or something that is not an object
Item(isObject, entity_id, action) ==
    [isObject |-> isObject, entity_id |-> entity_id, action |-> action]

\* the path /api/states/<entityID>, and /api/states
StateEndpoint(entityID) == [path |-> "/api/states/", entityID |-> entityID]
StatesEndpoint == [path |-> "/api/states", entityID |-> EmptyStr]

\* the error of json.NewDecoder(resp.Body).Decode
decodeError == Errorf("%v", <<Arg("cause", "decode")>>)

\* getAllStates: the error and the states it returns; st is the hub's
\* answer to GET /api/states and cache the area cache as updateAreaCache
\* has left it when enrichWithArea reads it
allStates(cfg, cache, st) ==
    CASE st.kind = "neterr" ->
             [err |-> transportError("GET", StatesEndpoint), states |-> << >>]
      [] st.kind = "status" ->
             [err |-> Errorf("HA API returned status %d",
                             <<Arg("resp.StatusCode", 500)>>),
              states |-> << >>]
      [] st.kind = "undecodable" -> [err |-> decodeError, states |-> << >>]
      [] OTHER ->
             [err |-> nil,
              states |-> enrichStates(cache,
                                      filterEntities(cfg, lightsAndSwitches(st.val)))]

\* getEntityState: the error and the state it returns; outcome is the hub's
\* answer to GET /api/states/<entityID>: no answer, status 404, another
\* status, a body that is no state, or a state
entityState(cache, entityID, outcome) ==
    CASE outcome.kind = "neterr" ->
             [err |-> transportError("GET", StateEndpoint(entityID)),
              states |-> << >>]
      [] outcome.kind = "notfound" ->
             [err |-> Errorf("entity %s not found", <<Arg("entityID", entityID)>>),
              states |-> << >>]
      [] outcome.kind = "status" ->
             [err |-> Errorf("HA API returned status %d",
                             <<Arg("resp.StatusCode", 500)>>),
              states |-> << >>]
      [] outcome.kind = "undecodable" -> [err |-> decodeError, states |-> << >>]
      [] OTHER -> [err |-> nil, states |-> enrichStates(cache, <<outcome.val>>)]

\* getAllStatesHandler; marshalOK is whether json.Marshal returns no error
getAllStatesHandler(cfg, cache, st, marshalOK) ==
    LET r == allStates(cfg, cache, st)
    IN  IF r.err # nil
        THEN toolError(Sprintf("Failed to get states: %v", <<Arg("err", r.err)>>))
        ELSE IF ~marshalOK
        THEN toolError(Sprintf("Failed to serialize states: %v",
                               <<Arg("err", "marshal")>>))
        ELSE toolText(Sprintf("Found %d lights and switches:\n%s",
                              <<Arg("len(states)", Len(r.states)),
                                Arg("statesJSON", r.states)>>))

\* getEntityStateHandler
getEntityStateHandler(cache, entity_id, outcome, marshalOK) ==
    LET r == entityState(cache, entity_id.str, outcome)
    IN  IF ~entity_id.isStr
        THEN toolError(Sprintf("entity_id parameter is required", << >>))
        ELSE IF r.err # nil
        THEN toolError(Sprintf("Failed to get entity state: %v",
                               <<Arg("err", r.err)>>))
        ELSE IF ~marshalOK
        THEN toolError(Sprintf("Failed to serialize state: %v",
                               <<Arg("err", "marshal")>>))
        ELSE toolText(Sprintf("Entity %s is %s:\n%s",
                              <<Arg("entityID", entity_id.str),
                                Arg("state.State", r.states[1].State),
                                Arg("stateJSON", r.states[1])>>))

\* controlEntityHandler
controlEntityHandler(entity_id, action, outcome, duration) ==
    LET r == controlEntity(entity_id.str, action.str, outcome, duration)
    IN  IF ~entity_id.isStr
        THEN toolError(Sprintf("entity_id parameter is required", << >>))
        ELSE IF ~action.isStr
        THEN toolError(Sprintf("action parameter is required", << >>))
        ELSE IF r.err # nil
        THEN toolError(Sprintf("Failed to control entity: %v",
                               <<Arg("err", r.err)>>))
        ELSE toolText(Sprintf("Successfully turned %s %s",
                              <<Arg("entityID", entity_id.str),
                                Arg("action", action.str)>>))

\* an element of the entities array that is a string, as in
\* "entities": ["light.lamp1", "light.lamp2"]
StringItem(s) ==
    [isObject |-> FALSE, entity_id |-> NoStrArg, action |-> NoStrArg, str |-> s]

\* the pause after a control, in milliseconds
PauseMs == 50

\* the item takes one of the three branches that end in continue
malformed(item) ==
    ~item.isObject \/ ~item.entity_id.isStr \/ ~item.action.isStr

\* errorMsg of those branches, for the item of index i
malformedMessage(item, i) ==
    IF ~item.isObject
    THEN Sprintf("Entity %d: must be an object with entity_id and action",
                 <<Arg("i", i)>>)
    ELSE IF ~item.entity_id.isStr
    THEN Sprintf("Entity %d: entity_id is required and must be a string",
                 <<Arg("i", i)>>)
    ELSE Sprintf("Entity %s: action is required and must be a string",
                 <<Arg("entityID", item.entity_id.str)>>)

\* the entry of results of those branches
malformedResult(item, i) ==
    IF ~item.isObject
    THEN [index |-> i, success |-> FALSE, error |-> malformedMessage(item, i)]
    ELSE IF ~item.entity_id.isStr
    THEN [index |-> i, entity_id |-> EmptyStr, success |-> FALSE,
          error |-> malformedMessage(item, i)]
    ELSE [index |-> i, entity_id |-> item.entity_id.str, success |-> FALSE,
          error |-> malformedMessage(item, i)]

\* the entry of results after controlEntity returned err
controlResult(item, i, err) ==
    IF err # nil
    THEN [index |-> i, entity_id |-> item.entity_id.str,
          action |-> item.action.str, success |-> FALSE, error |-> err]
    ELSE [index |-> i, entity_id |-> item.entity_id.str,
          action |-> item.action.str, success |-> TRUE]

\* errorMsg after controlEntity returned the error err
controlMessage(item, err) ==
    Sprintf("Entity %s: %v", <<Arg("entityID", item.entity_id.str), Arg("err", err)>>)

\* variant: the loop ends with the first item that fails
nextItem_breaksOnFailure(i, n, itemFailed) == IF itemFailed THEN n ELSE i + 1

\* the index the loop goes on with after the item of index i, of n items
nextItem(i, n, itemFailed) == i + 1

\* variant: no pause
pauseAfter_never(i, n) == FALSE

\* the control of the item of index i, of n items, is followed by a pause
pauseAfter(i, n) == i < n - 1

\* successCount
successCount(results) ==
    Cardinality({k \in 1..Len(results) : results[k].success})

\* response: the results, and the errors if there are any
batchResponse(results, errors) ==
    IF Len(errors) > 0
    THEN [results |-> results, errors |-> errors]
    ELSE [results |-> results]

(***************************************************************************)
(* start of the server.  The environment is the values of HA_TOKEN and     *)
(* HA_URL, "" for a variable that is not set; the config file is missing,  *)
(* is no JSON, or is parsed into the fields ha_token and ha_url, "" for a  *)
(* member the file does not have.  The pattern lists are left out.         *)
(***************************************************************************)
\* strings.TrimSuffix(s, "/")
TrimSuffixSlash(s) ==
    IF s # EmptyStr /\ s[Len(s)] = "/" THEN SubSeq(s, 1, Len(s) - 1) ELSE s

\* h.config before LoadConfig
zeroConfig == [HAToken |-> EmptyStr, HAURL |-> EmptyStr]

\* LoadConfig: the error it returns and h.config after it
LoadConfig(env, file) ==
    IF env.HA_TOKEN # EmptyStr /\ env.HA_URL # EmptyStr
    THEN [err |-> nil,
          config |-> [HAToken |-> env.HA_TOKEN,
                      HAURL |-> TrimSuffixSlash(env.HA_URL)]]
    ELSE IF file.kind = "missing"
    THEN [err |-> Errorf("failed to read config file %s: %v",
                         <<Arg("configFile", "config.json"), Arg("err", "read")>>),
          config |-> zeroConfig]
    ELSE IF file.kind = "unparsable"
    THEN [err |-> Errorf("failed to parse config file %s: %v",
                         <<Arg("configFile", "config.json"), Arg("err", "parse")>>),
          config |-> zeroConfig]
    ELSE [err |-> nil,
          config |-> [HAToken |-> file.ha_token,
                      HAURL |-> TrimSuffixSlash(file.ha_url)]]

\* the tools main registers, in the order of the calls of AddTool
registeredTools ==
    <<"get_all_states", "get_entity_state", "control_entity",
      "control_multiple_entities">>

\* main up to the start of the transport: the exit status, 0 while the
\* process has not exited, the tools that are registered and the
\* configuration they work with
main(env, file) ==
    LET loaded == LoadConfig(env, file)
    IN  IF loaded.err # nil
        THEN [exit |-> 1, tools |-> << >>, config |-> loaded.config]
        ELSE [exit |-> 0, tools |-> registeredTools, config |-> loaded.config]

(***************************************************************************)
(* The functions of the registry resolution, of the heuristic and of the   *)
(* filter, applied on their own.  A behaviour of SpecFn starts with one    *)
(* function and the arguments it is called with, and its step applies the  *)
(* function to them.                                                       *)
(***************************************************************************)
\* the longest area name normalizeAreaID is applied to
MaxNameLen == 3

\* "Kitchen Light"
nameKitchenLight == <<"K","i","t","c","h","e","n"," ","L","i","g","h","t">>
\* "Living Room"
nameLivingRoom == <<"L","i","v","i","n","g"," ","R","o","o","m">>
\* "Bar Light"
nameBarLight == <<"B","a","r"," ","L","i","g","h","t">>
\* "Ba with diaeresisr Lampe"
nameBaerLampe == <<"B","U+00E4","r"," ","L","a","m","p","e">>
\* "Big ROOM Lamp"
nameBigROOMLamp == <<"B","i","g"," ","R","O","O","M"," ","L","a","m","p">>
\* "Garden Shed Light"
nameGardenShedLight == <<"G","a","r","d","e","n"," ","S","h","e","d"," ","L","i","g","h","t">>
\* "Highlights Shelf"
nameHighlightsShelf == <<"H","i","g","h","l","i","g","h","t","s"," ","S","h","e","l","f">>
\* "Attic  Fan"
nameAtticFan == <<"A","t","t","i","c"," "," ","F","a","n">>

\* the friendly names of the states; the second has two adjacent spaces
FriendlyNames ==
    { EmptyStr, nameKitchen, nameKitchenLight, nameLivingRoom,
      nameLivingRoomLamp, nameSonoffSwitch, nameBarLight, nameBaerLampe,
      nameBigROOMLamp, nameGardenShedLight, nameHighlightsShelf, nameAtticFan }

\* the attributes of a state: with a friendly name, with a friendly name
\* that is no string, without one
attrsNamed(nameStr) == [a \in {"friendly_name"} |-> StrAttr(nameStr)]
attrsOtherName == [a \in {"friendly_name"} |-> OtherAttr]
attrsBoth(areaAttr, nameStr) ==
    [a \in {"area", "friendly_name"} |->
        IF a = "area" THEN areaAttr ELSE StrAttr(nameStr)]
attrsArea(areaAttr) == [a \in {"area"} |-> areaAttr]

FriendlyNameAttrs ==
    {attrsNamed(n) : n \in FriendlyNames} \cup {attrsOtherName, EmptyMap}

\* the states payloads the heuristic is applied to
HeuristicStates ==
    {HAState(lightA, "on", attrsBoth(area, n)) :
         area \in {StrAttr(nameOffice), StrAttr(nameLivingRoom), StrAttr(EmptyStr),
                   OtherAttr},
         n \in {nameLivingRoomLamp, nameSonoffSwitch, nameKitchenLight}}
      \cup {HAState(lightA, "on", attrsArea(StrAttr(nameOffice)))}
      \cup {HAState(lightA, "on", a) : a \in FriendlyNameAttrs}

HeuristicStateLists ==
    StateLists \cup {<<st>> : st \in HeuristicStates}
        \cup {<<HAState(lightA, "on", attrsNamed(nameKitchenLight)),
                HAState(switchC, "on", attrsNamed(nameKitchenSensor))>>}
        \* two states of one area id under two display names, in both orders
        \cup {<<HAState(lightA, "on", attrsArea(StrAttr(kitchen))),
                HAState(switchC, "on", attrsNamed(nameKitchenLight))>>,
              <<HAState(switchC, "on", attrsNamed(nameKitchenLight)),
                HAState(lightA, "on", attrsArea(StrAttr(kitchen)))>>}
        \* a sensor that has an area attribute and an area-like name
        \cup {<<HAState(sensorT, "on",
                        attrsBoth(StrAttr(nameOffice), nameKitchenLight))>>}

\* the area lists a REST candidate answers with
RESTAreaLists == AreaLists \cup {<<HAArea(kitchen, nameKitchen)>>}

\* the names of at most MaxNameLen characters normalizeAreaID is applied to
NameChars == {"A", "a", " ", "_", "U+00C4"}
AreaNames == UNION {[1..n -> NameChars] : n \in 0..MaxNameLen}

\* the pattern a$, and the lists of patterns of the configurations
patEndsA == Pattern(<<"a","$">>, TRUE, FALSE, TRUE, <<Lit("a")>>)
\* an identifier that is no regular expression, the pattern made of it and
\* a state of that identifier
lightBracket == <<"l","i","g","h","t",".","[">>
patBracket == Pattern(lightBracket, FALSE, FALSE, FALSE, << >>)
stBracket == HAState(lightBracket, "on", EmptyMap)
Blacklists ==
    {<< >>, <<patSwitches, patMalformed>>, <<patLightA>>, <<patMalformed>>,
     <<patBracket>>}
Whitelists == {<< >>, <<patLightA>>, <<patMalformed, patEndsA>>, <<patMalformed>>}
FilterConfigs == {Config(bl, wl) : bl \in Blacklists, wl \in Whitelists}
FilterInputs ==
    { << >>,
      <<stLivingRoomLamp, stSonoffSwitch>>,
      <<stSonoffSwitch, stKitchenSensor, stLivingRoomLamp, stSonoffSwitch>>,
      <<stBracket, stLivingRoomLamp>> }

\* the entity ids, the actions and the durations of a control: light.kitchen,
\* thermostat.hall and switch.c; the four actions, an action there is not and
\* an action of another case
lightKitchen == <<"l","i","g","h","t",".","k","i","t","c","h","e","n">>
thermostatHall ==
    <<"t","h","e","r","m","o","s","t","a","t",".","h","a","l","l">>
ControlIds == {lightKitchen, thermostatHall, switchC}
Actions == {"on", "turn_on", "off", "turn_off", "toggle", "ON"}
Durations == {"12ms", "8s"}

\* the area cache a handler finds: empty, or built of the registries
cacheOf(areas, devices, entities) ==
    [areas |-> buildAreasMap(areas),
     devices |-> buildDevicesMap(devices),
     entities |-> buildEntitiesMap(buildDevicesMap(devices), entities)]
Caches ==
    { cacheOf(<< >>, << >>, << >>),
      cacheOf(<<HAArea(kitchen, nameKitchen), HAArea(office, nameOffice)>>,
              <<HADevice(dev1, office), HADevice(dev2, EmptyStr)>>,
              <<HAEntity(lightA, dev1, kitchen), HAEntity(switchC, dev2, EmptyStr)>>) }

\* what the hub answers to GET /api/states/<id>
EntityStateOutcomes ==
    {[kind |-> k, val |-> st] :
        k \in {"neterr", "notfound", "status", "undecodable", "ok"},
        st \in AllStates}

\* the entity_id and the action a tool is called with
EntityIDArgs == {NoStrArg} \cup {StrArg(x.EntityID) : x \in AllStates}
ActionArgs == {NoStrArg, StrArg("on"), StrArg("toggle")}
ControlIDArgs == {NoStrArg, StrArg(lightKitchen), StrArg(thermostatHall)}

\* the environments and the config files the server is started with: a
\* token or none; no URL, the URL / , a URL, a URL that ends in /
someToken == <<"t","o","k">>
TokenValues == {EmptyStr, someToken}
URLValues == {EmptyStr, <<"/">>, <<"h","a">>, <<"h","a","/">>}
Environments == {[HA_TOKEN |-> t, HA_URL |-> u] : t \in TokenValues, u \in URLValues}
ConfigFiles ==
    {[kind |-> k, ha_token |-> EmptyStr, ha_url |-> EmptyStr] :
        k \in {"missing", "unparsable"}}
      \cup {[kind |-> "parsed", ha_token |-> t, ha_url |-> u] :
                t \in TokenValues, u \in URLValues}

\* the largest number of items of a batch
MaxBatch == 3

\* the items of a batch, each with the hub's answer to its POST: no object,
\* the string light.kitchen, no entity_id, no action, light.kitchen on (answered 200, 500 or not at
\* all), light.kitchen toggle, thermostat.hall on
answered200 == [kind |-> "status", status |-> StatusOK]
BatchInputs ==
    { [item |-> item, outcome |-> answered200] :
        item \in { Item(FALSE, NoStrArg, NoStrArg),
                   StringItem(lightKitchen),
                   Item(TRUE, NoStrArg, StrArg("on")),
                   Item(TRUE, StrArg(lightKitchen), NoStrArg),
                   Item(TRUE, StrArg(lightKitchen), StrArg("toggle")),
                   Item(TRUE, StrArg(thermostatHall), StrArg("on")) } }
      \cup { [item |-> Item(TRUE, StrArg(lightKitchen), StrArg("on")), outcome |-> o] :
                 o \in { answered200,
                         [kind |-> "status", status |-> 500],
                         [kind |-> "neterr", status |-> 0] } }
Batches == UNION {[1..n -> BatchInputs] : n \in 0..MaxBatch}

\* the arguments of control_multiple_entities: entities an array, missing,
\* or no array, and the member action, which the arguments may have
BatchArguments(present, isArray, items, action) ==
    [present |-> present, isArray |-> isArray, items |-> items, action |-> action]
TopActions == {NoStrArg, StrArg("off")}

Calls ==
    {[fn |-> "getAreas", ws |-> ws, rests |-> <<r1, r2>>, st |-> st] :
         ws \in WSOutcomes(AreaLists), r1 \in RESTOutcomes(RESTAreaLists),
         r2 \in RESTOutcomes(RESTAreaLists), st \in RESTOutcomes(StateLists)}
      \cup {[fn |-> "getDevices", ws |-> ws, rest |-> rest] :
                ws \in WSOutcomes(DeviceLists), rest \in RESTOutcomes(DeviceLists)}
      \cup {[fn |-> "getEntityRegistry", ws |-> ws, rest |-> rest, st |-> st] :
                ws \in WSOutcomes(EntityLists), rest \in RESTOutcomes(EntityLists),
                st \in RESTOutcomes(StateLists)}
      \cup {[fn |-> "extractAreasFromStates", st |-> st] :
                st \in RESTOutcomes(HeuristicStateLists)}
      \cup {[fn |-> "extractEntityAreaFromStates", st |-> st] :
                st \in RESTOutcomes(HeuristicStateLists)}
      \cup {[fn |-> "friendlyNameArea", attrs |-> attrs] : attrs \in FriendlyNameAttrs}
      \cup {[fn |-> "normalizeAreaID", name |-> name] : name \in AreaNames}
      \cup {[fn |-> "filterEntities", cfg |-> cfg, entities |-> entities] :
                cfg \in FilterConfigs, entities \in FilterInputs}
      \cup {[fn |-> "controlEntity", entityID |-> entityID, action |-> action,
              outcome |-> outcome, duration |-> duration] :
                entityID \in ControlIds, action \in Actions,
                outcome \in PostOutcomes, duration \in Durations}
      \cup {[fn |-> "main", env |-> env, file |-> file] :
                env \in Environments, file \in ConfigFiles}
      \cup {[fn |-> "getAllStatesHandler", cache |-> cache, st |-> st,
              marshalOK |-> marshalOK] :
                cache \in Caches, st \in RESTOutcomes(StateLists),
                marshalOK \in BOOLEAN}
      \cup {c \in {[fn |-> "getEntityStateHandler", cache |-> cache,
                     entity_id |-> entity_id, outcome |-> outcome,
                     marshalOK |-> marshalOK] :
                       cache \in Caches, entity_id \in EntityIDArgs,
                       outcome \in EntityStateOutcomes, marshalOK \in BOOLEAN} :
                c.entity_id.isStr => c.outcome.val.EntityID = c.entity_id.str}
      \cup {[fn |-> "controlEntityHandler", entity_id |-> entity_id,
              action |-> action, outcome |-> outcome, duration |-> "12ms"] :
                entity_id \in ControlIDArgs, action \in ActionArgs,
                outcome \in PostOutcomes}
      \cup {[fn |-> "controlMultipleEntitiesHandler",
              arguments |-> BatchArguments(TRUE, TRUE,
                                           [i \in 1..Len(b) |-> b[i].item],
                                           action),
              outcomes |-> [i \in 1..Len(b) |-> b[i].outcome],
              duration |-> "12ms"] : b \in Batches, action \in TopActions}
      \cup {[fn |-> "controlMultipleEntitiesHandler",
              arguments |-> BatchArguments(present, FALSE, << >>, NoStrArg),
              outcomes |-> << >>,
              duration |-> "12ms"] : present \in BOOLEAN}

InitFn ==
    /\ InitServer
    /\ call \in Calls
    /\ result = NoResult
    /\ frame = NoFrame
    /\ socket = NoSocket

ApplyGetAreas ==
    /\ call.fn = "getAreas"
    /\ result = NoResult
    /\ \E r \in getAreas(call.ws, call.rests, call.st) : result' = Returned(r)
    /\ UNCHANGED <<call, frame>>
    /\ serverUnchanged

ApplyGetDevices ==
    /\ call.fn = "getDevices"
    /\ result = NoResult
    /\ result' = Returned(getDevices(call.ws, call.rest))
    /\ UNCHANGED <<call, frame>>
    /\ serverUnchanged

ApplyGetEntityRegistry ==
    /\ call.fn = "getEntityRegistry"
    /\ result = NoResult
    /\ result' = Returned(getEntityRegistry(call.ws, call.rest, call.st))
    /\ UNCHANGED <<call, frame>>
    /\ serverUnchanged

ApplyExtractAreasFromStates ==
    /\ call.fn = "extractAreasFromStates"
    /\ result = NoResult
    /\ \E r \in extractAreasFromStates(call.st, << >>) : result' = Returned(r)
    /\ UNCHANGED <<call, frame>>
    /\ serverUnchanged

ApplyExtractEntityAreaFromStates ==
    /\ call.fn = "extractEntityAreaFromStates"
    /\ result = NoResult
    /\ result' = Returned(extractEntityAreaFromStates(call.st, << >>))
    /\ UNCHANGED <<call, frame>>
    /\ serverUnchanged

\* the candidate of the friendly name of the attributes, and the area name
\* taken from it
ApplyFriendlyNameArea ==
    /\ call.fn = "friendlyNameArea"
    /\ result = NoResult
    /\ result' = Returned(
         [candidate |->
              IF "friendly_name" \in DOMAIN call.attrs
                    /\ call.attrs["friendly_name"].isStr
              THEN areaCandidate(call.attrs["friendly_name"].str)
              ELSE [has |-> FALSE, name |-> EmptyStr],
          area |-> friendlyNameArea(call.attrs)])
    /\ UNCHANGED <<call, frame>>
    /\ serverUnchanged

ApplyNormalizeAreaID ==
    /\ call.fn = "normalizeAreaID"
    /\ result = NoResult
    /\ result' = Returned(normalizeAreaID(call.name))
    /\ UNCHANGED <<call, frame>>
    /\ serverUnchanged

ApplyFilterEntities ==
    /\ call.fn = "filterEntities"
    /\ result = NoResult
    /\ result' = Returned(filterEntities(call.cfg, call.entities))
    /\ UNCHANGED <<call, frame>>
    /\ serverUnchanged

ApplyControlEntity ==
    /\ call.fn = "controlEntity"
    /\ result = NoResult
    /\ result' = Returned(controlEntity(call.entityID, call.action,
                                        call.outcome, call.duration))
    /\ UNCHANGED <<call, frame>>
    /\ serverUnchanged

ApplyGetAllStatesHandler ==
    /\ call.fn = "getAllStatesHandler"
    /\ result = NoResult
    /\ result' = Returned(getAllStatesHandler(config, call.cache, call.st,
                                              call.marshalOK))
    /\ UNCHANGED <<call, frame>>
    /\ serverUnchanged

ApplyGetEntityStateHandler ==
    /\ call.fn = "getEntityStateHandler"
    /\ result = NoResult
    /\ result' = Returned(getEntityStateHandler(call.cache, call.entity_id,
                                                call.outcome, call.marshalOK))
    /\ UNCHANGED <<call, frame>>
    /\ serverUnchanged

ApplyControlEntityHandler ==
    /\ call.fn = "controlEntityHandler"
    /\ result = NoResult
    /\ result' = Returned(controlEntityHandler(call.entity_id, call.action,
                                               call.outcome, call.duration))
    /\ UNCHANGED <<call, frame>>
    /\ serverUnchanged

ApplyMain ==
    /\ call.fn = "main"
    /\ result = NoResult
    /\ result' = Returned(main(call.env, call.file))
    /\ UNCHANGED <<call, frame>>
    /\ serverUnchanged

\* controlMultipleEntitiesHandler.  The item the loop is at is
\* call.arguments.items[frame.i + 1]; frame.inflight holds the requests that
\* were sent and are not answered yet, frame.events the calls of
\* controlEntity, their returns and the pauses, in the order they happened.
batchItem == call.arguments.items[frame.i + 1]
batchLen == Len(call.arguments.items)
batchControl ==
    controlEntity(batchItem.entity_id.str, batchItem.action.str,
                  call.outcomes[frame.i + 1], call.duration)
Event(k, i, ms) == [k |-> k, i |-> i, ms |-> ms]

\* the arguments are read (main.go:1141-1157)
BatchBegin ==
    /\ call.fn = "controlMultipleEntitiesHandler"
    /\ result = NoResult
    /\ frame = NoFrame
    /\ IF ~call.arguments.present
       THEN /\ result' = Returned(toolError(
                                Sprintf("entities parameter is required", << >>)))
            /\ UNCHANGED frame
       ELSE IF ~call.arguments.isArray
       THEN /\ result' = Returned(toolError(
                                Sprintf("entities must be an array", << >>)))
            /\ UNCHANGED frame
       ELSE /\ frame' = [pc |-> "item", i |-> 0, results |-> << >>,
                         errors |-> << >>, inflight |-> << >>, io |-> << >>,
                         log |-> <<Printf("Processing %d entities in batch",
                                          <<Arg("len(entitiesSlice)", batchLen)>>)>>,
                         events |-> << >>]
            /\ UNCHANGED result
    /\ UNCHANGED call
    /\ serverUnchanged

\* an item that is no object, or has no entity_id or no action
\* (main.go:1162-1198)
BatchMalformed ==
    /\ frame.pc = "item"
    /\ frame.i < batchLen
    /\ malformed(batchItem)
    /\ frame' = [frame EXCEPT
                    !.results = Append(@, malformedResult(batchItem, frame.i)),
                    !.errors = Append(@, malformedMessage(batchItem, frame.i)),
                    !.i = nextItem(frame.i, batchLen, TRUE)]
    /\ UNCHANGED <<call, result>>
    /\ serverUnchanged

\* controlEntity is called and sends its request, if it sends one
\* (main.go:1200, 1033-1060)
BatchControl ==
    /\ frame.pc = "item"
    /\ frame.i < batchLen
    /\ ~malformed(batchItem)
    /\ frame' = [frame EXCEPT
                    !.pc = "control",
                    !.inflight = batchControl.io,
                    !.io = @ \o batchControl.io,
                    !.events = Append(@, Event("call", frame.i, 0))]
    /\ UNCHANGED <<call, result>>
    /\ serverUnchanged

\* controlEntity returns, and its result is appended (main.go:1061-1219)
BatchControlled ==
    /\ frame.pc = "control"
    /\ LET err == batchControl.err
       IN  frame' = [frame EXCEPT
                        !.pc = IF pauseAfter(frame.i, batchLen)
                               THEN "sleep" ELSE "item",
                        !.i = IF pauseAfter(frame.i, batchLen)
                              THEN frame.i
                              ELSE nextItem(frame.i, batchLen, err # nil),
                        !.inflight = << >>,
                        !.log = @ \o batchControl.log,
                        !.results = Append(@, controlResult(batchItem, frame.i, err)),
                        !.errors = IF err # nil
                                   THEN Append(@, controlMessage(batchItem, err))
                                   ELSE @,
                        !.events = Append(@, Event("return", frame.i, 0))]
    /\ UNCHANGED <<call, result>>
    /\ serverUnchanged

\* time.Sleep(50 * time.Millisecond) (main.go:1221-1223)
BatchSleep ==
    /\ frame.pc = "sleep"
    /\ frame' = [frame EXCEPT
                    !.pc = "item",
                    !.i = nextItem(frame.i, batchLen,
                                   ~frame.results[Len(frame.results)].success),
                    !.events = Append(@, Event("pause", frame.i, PauseMs))]
    /\ UNCHANGED <<call, result>>
    /\ serverUnchanged

\* the loop is over: the response is built and returned (main.go:1226-1250)
BatchReturn ==
    /\ frame.pc = "item"
    /\ frame.i >= batchLen
    /\ LET succeeded == successCount(frame.results)
       IN  /\ result' = Returned(toolText(
                            Sprintf("Processed %d entities: %d successful, %d failed\n%s",
                                    <<Arg("len(entitiesSlice)", batchLen),
                                      Arg("successCount", succeeded),
                                      Arg("len(entitiesSlice)-successCount",
                                          batchLen - succeeded),
                                      Arg("responseJSON",
                                          batchResponse(frame.results,
                                                        frame.errors))>>)))
           /\ frame' = [frame EXCEPT
                           !.pc = "done",
                           !.log = Append(@, Printf("Batch completed: %d successful, %d failed",
                                                    <<Arg("successCount", succeeded),
                                                      Arg("len(entitiesSlice)-successCount",
                                                          batchLen - succeeded)>>))]
    /\ UNCHANGED call
    /\ serverUnchanged

NextFn ==
    \/ ApplyGetAreas
    \/ ApplyGetDevices
    \/ ApplyGetEntityRegistry
    \/ ApplyExtractAreasFromStates
    \/ ApplyExtractEntityAreaFromStates
    \/ ApplyFriendlyNameArea
    \/ ApplyNormalizeAreaID
    \/ ApplyFilterEntities
    \/ ApplyControlEntity
    \/ ApplyGetAllStatesHandler
    \/ ApplyGetEntityStateHandler
    \/ ApplyControlEntityHandler
    \/ ApplyMain
    \/ BatchBegin
    \/ BatchMalformed
    \/ BatchControl
    \/ BatchControlled
    \/ BatchSleep
    \/ BatchReturn

SpecFn == InitFn /\ [][NextFn]_vars

\* the function fn has been applied
applied(fn) == call.fn = fn /\ result # NoResult

(***************************************************************************)
(* The socket fetches of one refresh.  updateAreaCache, holding the         *)
(* exclusive lock, calls getAreas, getDevices and getEntityRegistry in      *)
(* turn; each begins with its socket fetch (getAreasViaWebSocket,           *)
(* getDevicesViaWebSocket, getEntityRegistryViaWebSocket) and goes on to    *)
(* its HTTP requests when the socket fetch fails.  A socket fetch dials,    *)
(* reads the hub's first frame, writes the auth frame, reads the reply,     *)
(* writes the request and reads the response; conn.Close() is deferred.     *)
(* The hub sends a frame, breaks the connection, or does nothing: its steps *)
(* are under no fairness, the steps of the server are.                      *)
(***************************************************************************)
\* the registries in the order updateAreaCache fetches them, and the type
\* of the request frame of each
SocketRegistries == <<"areas", "devices", "entities">>
RequestTypes ==
    <<"config/area_registry/list", "config/device_registry/list",
      "config/entity_registry/list">>

\* the frames the hub sends, by what the server makes of them: the type of
\* a frame that parses, "result" for a frame with success true and a list
\* that decodes, "unparsable" for a message that is no JSON object
FrameTypes == {"auth_required", "auth_ok", "auth_invalid", "result", "unparsable"}
NoFrameYet == "none"

\* a connection: the registry it was dialled for, the types of the frames
\* written to it, the type of the frame read in reply to the auth frame,
\* whether the hub has broken it and whether conn.Close() was called
Conn(reg) ==
    [reg |-> reg, sent |-> << >>, reply |-> NoFrameYet, broken |-> FALSE,
     closed |-> FALSE]

\* variant: every reply to the auth frame that parses is accepted
authAccepted_any(type) == type # "unparsable"

\* the reply to the auth frame lets the fetch go on
authAccepted(type) == type = "auth_ok"

\* variant: the connection is left open when the fetch fails
closeConn_onSuccessOnly(conns, ok) ==
    IF ok THEN [conns EXCEPT ![Len(conns)].closed = TRUE] ELSE conns

\* the deferred conn.Close() of the connection the fetch has dialled
closeConn(conns, ok) == [conns EXCEPT ![Len(conns)].closed = TRUE]

\* where the refresh goes on after the registry of index reg
afterRegistry(reg) ==
    IF reg < Len(SocketRegistries)
    THEN [pc |-> "dial", reg |-> reg + 1]
    ELSE [pc |-> "unlock", reg |-> reg]

\* the socket fetch returns, with a list (ok) or with an error: the
\* connection is closed, and the refresh goes on with the next registry or
\* with the HTTP requests of this one
fetchReturns(ok) ==
    [socket EXCEPT
        !.conns = closeConn(@, ok),
        !.inbox = NoFrameYet,
        !.fetches = Append(@, [reg |-> socket.reg, ok |-> ok]),
        !.pc = IF ok THEN afterRegistry(socket.reg).pc ELSE "fallback",
        !.reg = IF ok THEN afterRegistry(socket.reg).reg ELSE @]

\* the connection of the running fetch
conn == socket.conns[Len(socket.conns)]
connOpen == socket.conns # << >> /\ ~conn.closed

\* a read returns: the hub has sent a frame or has broken the connection
readReturns == socket.inbox # NoFrameYet \/ conn.broken

socketUnchanged ==
    UNCHANGED <<areaCache, sinceUpdate, config, pc, states, ret, locals,
                fetched, failed, replaced, call, result, frame>>

InitSockets ==
    /\ InitServer
    /\ call = NoCall
    /\ result = NoResult
    /\ frame = NoFrame
    /\ socket = [pc |-> "lock", reg |-> 1, conns |-> << >>, inbox |-> NoFrameYet,
                 dials |-> << >>, fetches |-> << >>]

\* areaCache.mu.Lock(), the cache being stale (main.go:872-880)
BeginRefresh ==
    /\ socket.pc = "lock"
    /\ canLock(1)
    /\ mu' = [mu EXCEPT !.writer = 1]
    /\ socket' = [socket EXCEPT !.pc = "dial"]
    /\ socketUnchanged

\* websocket.DefaultDialer.Dial: a connection, or an error (main.go:50-55,
\* 157-162, 223-228); the dialer gives up after its handshake timeout
Dial ==
    /\ socket.pc = "dial"
    /\ \E ok \in BOOLEAN :
         socket' = [socket EXCEPT
                       !.dials = Append(@, socket.reg),
                       !.conns = IF ok THEN Append(@, Conn(socket.reg)) ELSE @,
                       !.fetches = IF ok THEN @
                                   ELSE Append(@, [reg |-> socket.reg, ok |-> FALSE]),
                       !.pc = IF ok THEN "readInitial" ELSE "fallback"]
    /\ UNCHANGED mu
    /\ socketUnchanged

\* the first conn.ReadMessage(): any frame that parses is taken as the
\* auth_required frame (main.go:58-68, 284-294)
ReadInitial ==
    /\ socket.pc = "readInitial"
    /\ readReturns
    /\ IF socket.inbox \in FrameTypes \ {"unparsable"}
       THEN socket' = [socket EXCEPT !.inbox = NoFrameYet, !.pc = "writeAuth"]
       ELSE socket' = fetchReturns(FALSE)
    /\ UNCHANGED mu
    /\ socketUnchanged

\* conn.WriteJSON(authMsg) (main.go:73-81, 297-305)
WriteAuth ==
    /\ socket.pc = "writeAuth"
    /\ IF conn.broken
       THEN socket' = fetchReturns(FALSE)
       ELSE socket' = [socket EXCEPT
                          !.conns[Len(socket.conns)].sent = Append(@, "auth"),
                          !.pc = "readAuthReply"]
    /\ UNCHANGED mu
    /\ socketUnchanged

\* the second conn.ReadMessage() and the test of the type of the reply
\* (main.go:84-99, 308-323)
ReadAuthReply ==
    /\ socket.pc = "readAuthReply"
    /\ readReturns
    /\ IF socket.inbox = NoFrameYet
       THEN socket' = fetchReturns(FALSE)
       ELSE LET replied == [socket EXCEPT
                               !.conns[Len(socket.conns)].reply = socket.inbox]
            IN  IF authAccepted(socket.inbox)
                THEN socket' = [replied EXCEPT
                                   !.inbox = NoFrameYet, !.pc = "writeRequest"]
                ELSE socket' = [replied EXCEPT
                                   !.conns = closeConn(@, FALSE),
                                   !.inbox = NoFrameYet,
                                   !.fetches = Append(@, [reg |-> socket.reg,
                                                          ok |-> FALSE]),
                                   !.pc = "fallback"]
    /\ UNCHANGED mu
    /\ socketUnchanged

\* conn.WriteJSON of the request of the registry (main.go:104-112, 170-178,
\* 236-244)
WriteRequest ==
    /\ socket.pc = "writeRequest"
    /\ IF conn.broken
       THEN socket' = fetchReturns(FALSE)
       ELSE socket' = [socket EXCEPT
                          !.conns[Len(socket.conns)].sent =
                              Append(@, RequestTypes[socket.reg]),
                          !.pc = "readResponse"]
    /\ UNCHANGED mu
    /\ socketUnchanged

\* the third conn.ReadMessage() and the decoding of the list (main.go:115-146,
\* 181-212, 247-278)
ReadResponse ==
    /\ socket.pc = "readResponse"
    /\ readReturns
    /\ socket' = fetchReturns(socket.inbox = "result")
    /\ UNCHANGED mu
    /\ socketUnchanged

\* the HTTP requests of the registry after a socket fetch that failed; the
\* client of makeHARequest has a timeout, each request returns (main.go:431-434)
Fallback ==
    /\ socket.pc = "fallback"
    /\ socket' = [socket EXCEPT
                     !.pc = afterRegistry(socket.reg).pc,
                     !.reg = afterRegistry(socket.reg).reg]
    /\ UNCHANGED mu
    /\ socketUnchanged

\* the maps are replaced and the deferred areaCache.mu.Unlock() runs
\* (main.go:873, 889-936)
EndRefresh ==
    /\ socket.pc = "unlock"
    /\ mu' = [mu EXCEPT !.writer = NoOne]
    /\ socket' = [socket EXCEPT !.pc = "done"]
    /\ socketUnchanged

\* the hub sends a frame on the open connection
HubSend ==
    /\ socket.pc \in {"readInitial", "writeAuth", "readAuthReply",
                      "writeRequest", "readResponse"}
    /\ connOpen
    /\ ~conn.broken
    /\ socket.inbox = NoFrameYet
    /\ \E type \in FrameTypes : socket' = [socket EXCEPT !.inbox = type]
    /\ UNCHANGED mu
    /\ socketUnchanged

\* the hub, or the network, breaks the open connection
HubDrop ==
    /\ socket.pc \in {"readInitial", "writeAuth", "readAuthReply",
                      "writeRequest", "readResponse"}
    /\ connOpen
    /\ ~conn.broken
    /\ socket' = [socket EXCEPT !.conns[Len(socket.conns)].broken = TRUE]
    /\ UNCHANGED mu
    /\ socketUnchanged

\* the steps of the server
ServerSockets ==
    \/ BeginRefresh
    \/ Dial
    \/ ReadInitial
    \/ WriteAuth
    \/ ReadAuthReply
    \/ WriteRequest
    \/ ReadResponse
    \/ Fallback
    \/ EndRefresh

NextSockets ==
    \/ ServerSockets
    \/ HubSend
    \/ HubDrop

SpecSockets == InitSockets /\ [][NextSockets]_vars /\ WF_vars(ServerSockets)

(***************************************************************************)
(* Properties of the area cache.                                           *)
(***************************************************************************)
FetchPcs == {"getAreas", "getDevices", "getEntityRegistry"}
PipelinePcs == FetchPcs \cup {"buildAreas", "buildDevices", "buildEntities"}
CriticalPcs == PipelinePcs \cup {"check", "return"}

\* a step in which a registry is requested from the hub
fetchStep == fetched' # fetched /\ fetched' # {}

\* updateAreaCache has run its whole sequence and is about to return
refreshComplete(p) == pc[p] = "return" /\ fetched = Registries

\* updateAreaCache found the cache fresh and is about to return
refreshSkipped(p) == pc[p] = "return" /\ fetched = {}

\* C1: an updateAreaCache that finds the cache younger than the threshold
\* returns at once, requests nothing from the hub and leaves the three maps
\* and the timestamp as they are; a registry is requested only by a caller
\* in the pipeline, and only when the cache is at least the threshold old.
C1_SecondCallNoop ==
    [][/\ \A p \in Callers :
            (pc[p] = "check" /\ pc'[p] # "check" /\ sinceUpdate < Threshold)
                => /\ pc'[p] = "return"
                   /\ ~fetchStep
                   /\ areaCache' = areaCache
                   /\ sinceUpdate' = sinceUpdate
       /\ fetchStep =>
            /\ sinceUpdate >= Threshold
            /\ \E p \in Callers : pc[p] \in FetchPcs /\ pc'[p] # pc[p]
      ]_vars

\* a second call found the cache of a completed refresh fresh and skipped
C1_Witness ==
    \E p \in Callers :
        /\ refreshSkipped(p)
        /\ replaced = Registries
        /\ sinceUpdate < Threshold

\* C2: of the callers that invoke the refresh together, at most one at a
\* time is between Lock and Unlock, a caller makes the staleness check only
\* when no refresh is under way, and a caller is in the pipeline only while
\* the cache is stale: no second caller runs it on the refreshed cache.
C2_OneRefresher ==
    /\ \A p, q \in Callers :
           p # q => ~(pc[p] \in CriticalPcs /\ pc[q] \in CriticalPcs)
    /\ \A p \in Callers : pc[p] = "check" => fetched = {} /\ mu.writer = p
    /\ \A p \in Callers : pc[p] \in PipelinePcs => sinceUpdate >= Threshold

\* a caller skipped the refresh that another caller has just completed
C2_Witness ==
    \E p, q \in Callers :
        /\ p # q
        /\ refreshSkipped(p)
        /\ pc[q] \in {"rlock", "enrich", "runlock", "done"}
        /\ ~ret[q].err
        /\ replaced = Registries
        /\ sinceUpdate = 0

\* C3: while a caller holds the shared lock no refresh is under way, and the
\* three maps were all written by the same refresh or are all the initial
\* empty maps.
C3_NoPartialVisibility ==
    \A p \in Callers :
        (p \in mu.readers \/ pc[p] \in {"enrich", "runlock"})
            => /\ mu.writer = NoOne
               /\ \A q \in Callers : pc[q] \notin PipelinePcs
               /\ replaced \in {{}, Registries}
               /\ replaced = {} => areaCache = [areas |-> EmptyMap,
                                                devices |-> EmptyMap,
                                                entities |-> EmptyMap]

\* a caller reads a refreshed cache while another waits for the exclusive lock
C3_Witness ==
    \E p, q \in Callers :
        /\ pc[p] = "runlock"
        /\ p \in mu.readers
        /\ replaced = Registries
        /\ areaCache.areas # EmptyMap
        /\ pc[q] = "lock"

\* the keys a map has when it is rebuilt from the list just fetched
keysOf(r) ==
    CASE r = "areas" -> {a.AreaID : a \in Range(locals.areas)}
      [] r = "devices" ->
            {d.ID : d \in {x \in Range(locals.devices) : x.AreaID # EmptyStr}}
      [] OTHER ->
            {e.EntityID : e \in {x \in Range(locals.entities) :
                \/ x.AreaID # EmptyStr
                \/ x.DeviceID \in DOMAIN areaCache.devices}}

C5_ReadNeverFailsOnEnrichment ==
    [][\A p \in Callers :
           (pc[p] \notin {"idle", "done"} /\ pc'[p] = "done")
               => /\ pc[p] = "runlock"
                  /\ ~ret'[p].err
                  /\ ret'[p].states = states[p]]_vars

\* every read has returned a success result, the latest refresh having
\* failed for all three registries
C5_Witness ==
    /\ \A p \in Callers : pc[p] = "done" /\ ~ret[p].err /\ ret[p].states # << >>
    /\ failed = Registries
    /\ replaced = Registries

\* C6: a fetch that fails does not end the refresh: the refresh goes on to
\* rebuild that registry's map from the empty list, the remaining registries
\* are fetched, and the pipeline is left only by its last step, when all
\* three registries have been fetched.
C6_FailedFetchDoesNotAbort ==
    [][\A p \in Callers :
           /\ (pc[p] = "getAreas" /\ pc'[p] # pc[p])
                 => /\ pc'[p] = "buildAreas"
                    /\ "areas" \in failed' => locals'.areas = << >>
           /\ (pc[p] = "getDevices" /\ pc'[p] # pc[p])
                 => /\ pc'[p] = "buildDevices"
                    /\ "devices" \in failed' => locals'.devices = << >>
           /\ (pc[p] = "getEntityRegistry" /\ pc'[p] # pc[p])
                 => /\ pc'[p] = "buildEntities"
                    /\ "entities" \in failed' => locals'.entities = << >>
           /\ (pc[p] \in PipelinePcs /\ pc'[p] \notin PipelinePcs)
                 => /\ pc[p] = "buildEntities"
                    /\ pc'[p] = "return"
                    /\ fetched = Registries
                    /\ replaced' = Registries]_vars

\* the areas fetch failed, and the devices and the entity registry were
\* still fetched and stored
C6_Witness ==
    \E p \in Callers :
        /\ refreshComplete(p)
        /\ failed = {"areas"}
        /\ areaCache.devices # EmptyMap
        /\ areaCache.entities # EmptyMap

\* C7: the map of a registry whose fetch failed in the latest refresh is
\* empty once that refresh has replaced it, and the area a reader attaches
\* to a state is an area of the current areas map.
C7_FailedRegistryIsEmpty ==
    /\ \A r \in failed \cap replaced : areaCache[r] = EmptyMap
    /\ \A p \in Callers :
           pc[p] = "runlock"
               => \A i \in 1..Len(states[p]) :
                      \/ states[p][i].Area = NoArea
                      \/ states[p][i].Area \in Range(areaCache.areas)

\* an earlier refresh served an area to a read; the latest refresh failed
\* for the areas, and the next read gets no area
C7_Witness ==
    \E p, q \in Callers :
        /\ pc[q] = "done"
        /\ ret[q].states # << >>
        /\ ret[q].states[1].Area # NoArea
        /\ pc[p] = "runlock"
        /\ states[p] # << >>
        /\ states[p][1].Area = NoArea
        /\ "areas" \in failed
        /\ replaced = Registries
        /\ areaCache.areas = EmptyMap

\* C8: the timestamp is set only by the last step of the pipeline, when
\* all three registries have been fetched; the pipeline is never left
\* without setting it, also when fetches failed; and a registry is
\* requested only when the cache is at least the threshold old.
C8_TimestampOnCompletion ==
    [][/\ (sinceUpdate' < sinceUpdate)
            => /\ sinceUpdate' = 0
               /\ fetched = Registries
               /\ \E p \in Callers : pc[p] = "buildEntities" /\ pc'[p] = "return"
       /\ \A p \in Callers :
            (pc[p] \in PipelinePcs /\ pc'[p] \notin PipelinePcs)
                => sinceUpdate' = 0
       /\ \A p \in Callers :
            (pc[p] \in FetchPcs /\ pc'[p] # pc[p]) => sinceUpdate >= Threshold
      ]_vars

\* a call made a minute before the window ends, after a refresh in which
\* all three fetches failed, does not refresh
C8_Witness ==
    \E p \in Callers :
        /\ refreshSkipped(p)
        /\ failed = Registries
        /\ replaced = Registries
        /\ sinceUpdate = Threshold - 1

\* the registration has a direct area and a device of another area
directAndDevice(e) ==
    /\ e.AreaID # EmptyStr
    /\ e.DeviceID \in DOMAIN areaCache.devices
    /\ areaCache.devices[e.DeviceID] # e.AreaID

\* C9: when a refresh completes, an entity registration with a direct area
\* id and a device of a different area is bound to the direct area id.
C9_DirectAreaWins ==
    \A p \in Callers :
        refreshComplete(p)
            => \A e \in Range(locals.entities) :
                   directAndDevice(e)
                       => /\ e.EntityID \in DOMAIN areaCache.entities
                          /\ areaCache.entities[e.EntityID] = e.AreaID

\* a refresh completed with such a registration
C9_Witness ==
    \E p \in Callers :
        /\ refreshComplete(p)
        /\ \E e \in Range(locals.entities) :
               /\ directAndDevice(e)
               /\ areaCache.entities[e.EntityID] = e.AreaID

\* the devices of the registry that the registration names and that have
\* an area
devicesOf(e) ==
    {d \in Range(locals.devices) : d.ID = e.DeviceID /\ d.AreaID # EmptyStr}

\* C10: when a refresh completes, an entity registration without a direct
\* area whose device the device registry of this refresh maps to an area is
\* bound to that area; and a state a reader has looked up carries the Area
\* of its entity whenever the entity map and the areas map have it.
C10_AreaThroughDevice ==
    /\ \A p \in Callers :
           refreshComplete(p)
               => \A e \in Range(locals.entities) :
                      (e.AreaID = EmptyStr /\ devicesOf(e) # {})
                          => /\ e.EntityID \in DOMAIN areaCache.entities
                             /\ \E d \in devicesOf(e) :
                                    areaCache.entities[e.EntityID] = d.AreaID
    /\ \A p \in Callers :
           pc[p] = "runlock"
               => \A i \in 1..Len(states[p]) :
                      LET entityID == states[p][i].EntityID
                      IN  (/\ entityID \in DOMAIN areaCache.entities
                           /\ areaCache.entities[entityID] \in DOMAIN areaCache.areas)
                              => states[p][i].Area =
                                     areaCache.areas[areaCache.entities[entityID]]

\* a reader got the office for light.a, which the refresh bound to it
\* through dev1
C10_Witness ==
    \E p \in Callers :
        /\ pc[p] = "runlock"
        /\ states[p] # << >>
        /\ states[p][1].EntityID = lightA
        /\ states[p][1].Area = HAArea(office, nameOffice)
        /\ dev1 \in DOMAIN areaCache.devices
        /\ areaCache.devices[dev1] = office
        /\ lightA \in DOMAIN areaCache.entities
        /\ areaCache.entities[lightA] = office

\* the entity id is a key of the entity map, and the area id it maps to a
\* key of the areas map
resolvable(entityID) ==
    /\ entityID \in DOMAIN areaCache.entities
    /\ areaCache.entities[entityID] \in DOMAIN areaCache.areas

\* C11: a state that enrichWithArea has looked up carries an Area exactly
\* when its entity id is a key of the entity map whose area id is a key of
\* the areas map, and the Area is the one of the areas map; the read then
\* returns without an error.
C11_LookupExactlyWhenResolvable ==
    /\ \A p \in Callers :
           pc[p] = "runlock"
               => \A i \in 1..Len(states[p]) :
                      LET entityID == states[p][i].EntityID
                      IN  /\ states[p][i].Area # NoArea <=> resolvable(entityID)
                          /\ resolvable(entityID)
                                => states[p][i].Area =
                                       areaCache.areas[areaCache.entities[entityID]]
    /\ \A p \in Callers :
           (pc[p] = "done" /\ ret[p].states # << >>) => ~ret[p].err

\* a reader left light.a without an area: the entity map binds it to an
\* area id that the areas map, which is not empty, does not have
C11_Witness ==
    \E p \in Callers :
        /\ pc[p] = "runlock"
        /\ states[p] # << >>
        /\ states[p][1].EntityID = lightA
        /\ states[p][1].Area = NoArea
        /\ lightA \in DOMAIN areaCache.entities
        /\ areaCache.entities[lightA] \notin DOMAIN areaCache.areas
        /\ areaCache.areas # EmptyMap

\* the tiers of getAreas in the order of the code, and whether the hub's
\* answers make each succeed
areaTiers == <<ReqWSAreas, ReqRESTAreas1, ReqRESTAreas2, ReqStates>>
areaTierSucceeds ==
    << ~call.ws.err /\ Len(call.ws.val) > 0,
       call.rests[1].kind = "ok",
       call.rests[2].kind = "ok",
       call.st.kind = "ok" >>

\* C12: getAreas contacts its tiers in the order socket, first REST
\* candidate, second REST candidate, states; it contacts a tier only when
\* every earlier tier failed, stops at the first tier that succeeds, and
\* returns what that tier gave (an error when the last one failed too).
C12_AreaTiersInOrder ==
    applied("getAreas")
        => LET r == result.returned
               k == Len(r.io)
           IN  /\ k \in 1..4
               /\ r.io = SubSeq(areaTiers, 1, k)
               /\ \A i \in 1..(k - 1) : ~areaTierSucceeds[i]
               /\ k < 4 => areaTierSucceeds[k]
               /\ r.err <=> ~areaTierSucceeds[k]
               /\ k = 1 => r.val = call.ws.val
               /\ k \in {2, 3} => r.val = call.rests[k - 1].val
               /\ (k = 4 /\ ~r.err)
                     => {a.AreaID : a \in Range(r.val)}
                            = DOMAIN areasMapOfStates(EmptyMap, call.st.val)

\* the socket fails, the first REST candidate answers 403 and the second
\* 200 with one area: exactly that area, and no states request
C12_Witness ==
    /\ applied("getAreas")
    /\ call.ws.err
    /\ call.rests[1].kind = "status"
    /\ call.rests[2] = [kind |-> "ok", val |-> <<HAArea(kitchen, nameKitchen)>>]
    /\ result.returned =
           Result(FALSE, <<HAArea(kitchen, nameKitchen)>>,
                  <<ReqWSAreas, ReqRESTAreas1, ReqRESTAreas2>>)

\* the socket answered without an error and with an empty list
emptyFromSocket == ~call.ws.err /\ call.ws.val = << >>

\* C13: an empty list from the socket makes getAreas go on to the REST
\* path, and makes getDevices and getEntityRegistry return the empty list
\* without any further request.
C13_EmptySocketList ==
    /\ (applied("getAreas") /\ emptyFromSocket)
          => /\ Len(result.returned.io) >= 2
             /\ result.returned.io[2] = ReqRESTAreas1
    /\ (applied("getDevices") /\ emptyFromSocket)
          => result.returned = Result(FALSE, << >>, <<ReqWSDevices>>)
    /\ (applied("getEntityRegistry") /\ emptyFromSocket)
          => result.returned = Result(FALSE, << >>, <<ReqWSEntities>>)

\* the socket gave no area and the first REST candidate gave two
C13_Witness ==
    /\ applied("getAreas")
    /\ emptyFromSocket
    /\ call.rests[1].kind = "ok"
    /\ Len(call.rests[1].val) = 2
    /\ result.returned =
           Result(FALSE, call.rests[1].val, <<ReqWSAreas, ReqRESTAreas1>>)

\* C14 (as claimed): when the socket fails, a REST answer of the entity
\* registry that is not 200 or does not decode makes getEntityRegistry
\* request the states and return the registrations extracted from them.
C14_RESTFailureFallsToHeuristic ==
    (/\ applied("getEntityRegistry")
     /\ call.ws.err
     /\ call.rest.kind \in {"status", "undecodable"})
        => /\ result.returned.io = <<ReqWSEntities, ReqRESTEntities, ReqStates>>
           /\ call.st.kind = "ok"
                 => /\ ~result.returned.err
                    /\ result.returned.val = entitiesOfStates(call.st.val)

\* C15: getDevices never requests the states, and after a failure of the
\* socket and a REST answer other than 200 it returns no device and no
\* error.
C15_DevicesWithoutHeuristic ==
    applied("getDevices")
        => /\ ReqStates \notin Range(result.returned.io)
           /\ (call.ws.err /\ call.rest.kind = "status")
                 => /\ ~result.returned.err
                    /\ result.returned.val = << >>

\* the socket failed and the device registry answered another status
C15_Witness ==
    /\ applied("getDevices")
    /\ call.ws.err
    /\ call.rest.kind = "status"
    /\ result.returned = Result(FALSE, << >>, <<ReqWSDevices, ReqRESTDevices>>)

\* the state has a non-empty string as its area attribute
hasExplicitArea(state) ==
    /\ "area" \in DOMAIN state.Attributes
    /\ state.Attributes["area"].isStr
    /\ state.Attributes["area"].str # EmptyStr

\* the area name of a state when the friendly name is inspected only in
\* the absence of an explicit area
explicitElseFriendly(state) ==
    IF hasExplicitArea(state)
    THEN [found |-> TRUE, name |-> state.Attributes["area"].str]
    ELSE friendlyNameArea(state.Attributes)

\* C16 (as claimed): the heuristic inspects the friendly name of a state
\* only when the state has no explicit area: the areas extracted are those
\* of the explicit area attributes and, for the states without one, of the
\* friendly names; and the registration made for a state with an explicit
\* area is bound to that area.
C16_ExplicitAreaOnly ==
    /\ (applied("extractAreasFromStates") /\ call.st.kind = "ok")
          => {a.AreaID : a \in Range(result.returned.val)}
                 = {normalizeAreaID(explicitElseFriendly(state).name) :
                        state \in {x \in Range(call.st.val) :
                                       /\ isLightOrSwitch(x.EntityID)
                                       /\ explicitElseFriendly(x).found}}
    /\ (applied("extractEntityAreaFromStates") /\ call.st.kind = "ok")
          => \A e \in Range(result.returned.val) :
             \A state \in Range(call.st.val) :
                 (state.EntityID = e.EntityID /\ hasExplicitArea(state))
                     => e.AreaID = normalizeAreaID(state.Attributes["area"].str)

\* the parts joined by single spaces
RECURSIVE joinSpaces(_)
joinSpaces(parts) ==
    IF Len(parts) = 1
    THEN parts[1]
    ELSE parts[1] \o <<" ">> \o joinSpaces(Tail(parts))

\* parts are the tokens of nameStr: the pieces between its single spaces
tokensOf(parts, nameStr) ==
    /\ Len(parts) >= 1
    /\ \A i \in 1..Len(parts) : \A j \in 1..Len(parts[i]) : parts[i][j] # " "
    /\ joinSpaces(parts) = nameStr

\* the candidate of C17 as claimed: the first two tokens when there are at
\* least three and the second is an area noun, else the first token
claimedCandidate(parts) ==
    IF Len(parts) >= 3 /\ ToLower(parts[2]) \in commonAreaWords
    THEN parts[1] \o <<" ">> \o parts[2]
    ELSE parts[1]

\* the friendly name of the call is a string
namedCall ==
    /\ applied("friendlyNameArea")
    /\ "friendly_name" \in DOMAIN call.attrs
    /\ call.attrs["friendly_name"].isStr

\* C17 (as claimed): every friendly name, also one of one or two tokens,
\* has a candidate: the first two tokens when there are at least three and
\* the second is an area noun, else the first token.  The area taken from
\* the name is then that candidate whenever the acceptance test accepts it.
C17_CandidateOfEveryName ==
    namedCall
        => LET parts == Split(call.attrs["friendly_name"].str)
               possibleArea == claimedCandidate(parts)
           IN  /\ tokensOf(parts, call.attrs["friendly_name"].str)
               /\ result.returned.area =
                      IF acceptCandidate(possibleArea)
                      THEN [found |-> TRUE, name |-> possibleArea]
                      ELSE [found |-> FALSE, name |-> EmptyStr]

\* C17 (amended): a friendly name of at least two tokens has the candidate
\* claimed; a friendly name of one token has no candidate and gives no
\* area.
C17_CandidateOfTwoOrMoreTokens ==
    namedCall
        => LET parts == Split(call.attrs["friendly_name"].str)
           IN  /\ tokensOf(parts, call.attrs["friendly_name"].str)
               /\ Len(parts) >= 2
                     => result.returned.candidate =
                            [has |-> TRUE, name |-> claimedCandidate(parts)]
               /\ Len(parts) < 2
                     => /\ ~result.returned.candidate.has
                        /\ ~result.returned.area.found

\* the one-token name "Kitchen" gave no candidate and no area
C17_Witness ==
    /\ namedCall
    /\ call.attrs["friendly_name"].str = nameKitchen
    /\ ~result.returned.candidate.has
    /\ ~result.returned.area.found

\* C18 (as claimed): a candidate is accepted exactly when it has more than
\* 3 characters and contains no device-name word, whatever the case of
\* its letters; "Living Room Lamp 1" gives the area id living_room and
\* "Sonoff Switch 1" gives no area.
C18_AcceptedIffLongAndNoDeviceWord ==
    /\ (namedCall /\ result.returned.candidate.has)
          => LET possibleArea == result.returned.candidate.name
             IN  result.returned.area.found
                     <=> /\ Len(possibleArea) > 3
                         /\ \A d \in deviceNames : ~Contains(ToLower(possibleArea), d)
    /\ (namedCall /\ call.attrs["friendly_name"].str = nameLivingRoomLamp)
          => /\ result.returned.area.found
             /\ normalizeAreaID(result.returned.area.name)
                    = <<"l","i","v","i","n","g","_","r","o","o","m">>
    /\ (namedCall /\ call.attrs["friendly_name"].str = nameSonoffSwitch)
          => ~result.returned.area.found

\* C19: normalizing a normalized area id gives the same id, and the ids of
\* the areas the heuristic makes are normalized.
C19_NormalizationIdempotent ==
    /\ applied("normalizeAreaID")
          => normalizeAreaID(result.returned) = result.returned
    /\ (applied("extractAreasFromStates") /\ ~result.returned.err)
          => \A a \in Range(result.returned.val) :
                 /\ a.AreaID = normalizeAreaID(a.Name)
                 /\ normalizeAreaID(a.AreaID) = a.AreaID

\* a name with an upper-case letter, a space and a letter outside ASCII
C19_Witness ==
    /\ applied("normalizeAreaID")
    /\ call.name = <<"A", " ", "U+00C4">>
    /\ result.returned = <<"a", "_", "U+00E4">>

\* the pattern matches the identifier, as the blacklist tries it (the text
\* itself, then the regular expression) and as the whitelist does (the
\* regular expression); a malformed expression matches nothing
matchesPattern(pattern, entityID, exactToo) ==
    \/ exactToo /\ pattern.text = entityID
    \/ /\ pattern.compiles
       /\ regexpMatchString(pattern, entityID).matched

\* C20: the output of filterEntities has an entity of the input exactly
\* when no blacklist pattern matches its identifier and the whitelist is
\* empty or has a pattern that matches it; and it has nothing else.
C20_FilterExactly ==
    applied("filterEntities")
        => LET blacklist == call.cfg.EntityBlacklist
               whitelist == call.cfg.EntityFilter
               passes(entityID) ==
                   /\ \A i \in 1..Len(blacklist) :
                          ~matchesPattern(blacklist[i], entityID, TRUE)
                   /\ \/ whitelist = << >>
                      \/ \E i \in 1..Len(whitelist) :
                             matchesPattern(whitelist[i], entityID, FALSE)
           IN  /\ \A entity \in Range(call.entities) :
                      entity \in Range(result.returned) <=> passes(entity.EntityID)
               /\ Range(result.returned) \subseteq Range(call.entities)

\* light.a is dropped: the whitelist matches it and so does the blacklist
C20_Witness ==
    /\ applied("filterEntities")
    /\ call.cfg = Config(<<patLightA>>, <<patLightA>>)
    /\ stLivingRoomLamp \in Range(call.entities)
    /\ result.returned = << >>

\* C21: a pattern that does not compile matches nothing as a regular
\* expression and raises nothing: a blacklist of such patterns drops just
\* the entities whose identifier equals the text of one of them, and a
\* non-empty whitelist of such patterns admits no entity.
C21_MalformedPatterns ==
    applied("filterEntities")
        => LET blacklist == call.cfg.EntityBlacklist
               whitelist == call.cfg.EntityFilter
           IN  /\ (/\ \A i \in 1..Len(blacklist) : ~blacklist[i].compiles
                   /\ whitelist = << >>)
                     => \A entity \in Range(call.entities) :
                            entity \in Range(result.returned)
                                <=> \A i \in 1..Len(blacklist) :
                                        blacklist[i].text # entity.EntityID
               /\ (/\ whitelist # << >>
                   /\ \A i \in 1..Len(whitelist) : ~whitelist[i].compiles)
                     => result.returned = << >>

\* the blacklist is the malformed pattern light.[ : the entity of that
\* identifier is dropped and light.a passes
C21_Witness ==
    /\ applied("filterEntities")
    /\ call.cfg = Config(<<patBracket>>, << >>)
    /\ call.entities = <<stBracket, stLivingRoomLamp>>
    /\ result.returned = <<stLivingRoomLamp>>

\* a is b with some of its elements left out
RECURSIVE isSubsequence(_, _)
isSubsequence(a, b) ==
    IF a = << >>
    THEN TRUE
    ELSE IF b = << >>
         THEN FALSE
         ELSE IF Head(a) = Head(b)
              THEN isSubsequence(Tail(a), Tail(b))
              ELSE isSubsequence(a, Tail(b))

\* C22: the output of filterEntities is a subsequence of its input: the
\* entities that pass, unchanged, as often and in the order they came.
C22_FilterIsSubsequence ==
    applied("filterEntities")
        => /\ isSubsequence(result.returned, call.entities)
           /\ Len(result.returned) <= Len(call.entities)

\* the switch that comes twice in the input comes twice in the output,
\* around the sensor
C22_Witness ==
    /\ applied("filterEntities")
    /\ call.cfg = Config(<<patLightA>>, << >>)
    /\ call.entities =
           <<stSonoffSwitch, stKitchenSensor, stLivingRoomLamp, stSonoffSwitch>>
    /\ result.returned = <<stSonoffSwitch, stKitchenSensor, stSonoffSwitch>>

(***************************************************************************)
(* Properties of the control of an entity.                                 *)
(***************************************************************************)
\* the entity id has one of the two prefixes and the action is one of the
\* four
validPair(entityID, action) ==
    /\ HasPrefix(entityID, lightPrefix) \/ HasPrefix(entityID, switchPrefix)
    /\ action \in {"on", "turn_on", "off", "turn_off"}

\* the message has the value val under the name of
carries(message, of, val) ==
    \E i \in 1..Len(message.args) :
        message.args[i].of = of /\ message.args[i].val = val

\* the control POST was issued and failed
postFailed ==
    /\ applied("controlEntity")
    /\ validPair(call.entityID, call.action)
    /\ ~(call.outcome.kind = "status" /\ call.outcome.status = 200)

\* C23: for an entity id that begins with neither light. nor switch. , and
\* for an action that is none of on, turn_on, off, turn_off, controlEntity
\* returns an error and issues no request.
C23_InvalidPairNoRequest ==
    (applied("controlEntity") /\ ~validPair(call.entityID, call.action))
        => /\ result.returned.err # nil
           /\ result.returned.io = << >>

\* light.kitchen, toggle
C23_Witness ==
    /\ applied("controlEntity")
    /\ call.entityID = lightKitchen
    /\ call.action = "toggle"
    /\ result.returned.err # nil
    /\ result.returned.io = << >>

\* C24: for a valid pair controlEntity issues one request and no other, a
\* POST with the entity id as its body to the endpoint of the domain of the
\* prefix and of the service turn_on (on, turn_on) or turn_off (off,
\* turn_off), and returns no error exactly when the response has status 200.
C24_OnePostSuccessIff200 ==
    (applied("controlEntity") /\ validPair(call.entityID, call.action))
        => LET io == result.returned.io
           IN  /\ Len(io) = 1
               /\ io[1].method = "POST"
               /\ io[1].endpoint.domain =
                      (IF HasPrefix(call.entityID, lightPrefix)
                       THEN "light" ELSE "switch")
               /\ io[1].endpoint.service =
                      (IF call.action \in {"on", "turn_on"}
                       THEN "turn_on" ELSE "turn_off")
               /\ io[1].body = [entity_id |-> call.entityID]
               /\ result.returned.err = nil
                      <=> (call.outcome.kind = "status" /\ call.outcome.status = 200)

\* switch.c, off, answered with status 201: one POST to switch/turn_off and
\* an error
C24_Witness ==
    /\ applied("controlEntity")
    /\ call.entityID = switchC
    /\ call.action = "off"
    /\ call.outcome = [kind |-> "status", status |-> 201]
    /\ Len(result.returned.io) = 1
    /\ result.returned.io[1].endpoint = ServiceEndpoint("switch", "turn_off")
    /\ result.returned.err # nil

\* C25 (as claimed): when the POST fails, the error controlEntity returns
\* carries the entity id, the action and the elapsed duration.
C25_ErrorCarriesIdActionDuration ==
    postFailed
        => /\ carries(result.returned.err, "entityID", call.entityID)
           /\ carries(result.returned.err, "action", call.action)
           /\ carries(result.returned.err, "duration", call.duration)

\* C25 (amended): when the POST fails, the error controlEntity returns is
\* the error of the transport as it is, or an error that carries the status
\* of the response and nothing else; the entity id, the action and the
\* elapsed duration are carried by the lines controlEntity writes to the log.
C25_ErrorIsBareLogCarriesRest ==
    postFailed
        => LET r == result.returned
           IN  /\ IF call.outcome.kind = "neterr"
                  THEN r.err = transportError("POST", r.io[1].endpoint)
                  ELSE /\ Len(r.err.args) = 1
                       /\ carries(r.err, "resp.StatusCode", call.outcome.status)
               /\ \E i \in 1..Len(r.log) :
                      /\ carries(r.log[i], "entityID", call.entityID)
                      /\ carries(r.log[i], "action", call.action)
               /\ \E i \in 1..Len(r.log) :
                      /\ carries(r.log[i], "entityID", call.entityID)
                      /\ carries(r.log[i], "duration", call.duration)

\* light.kitchen, on, answered with status 500 after 8s
C25_Witness ==
    /\ postFailed
    /\ call.entityID = lightKitchen
    /\ call.action = "on"
    /\ call.outcome = [kind |-> "status", status |-> 500]
    /\ call.duration = "8s"
    /\ carries(result.returned.err, "resp.StatusCode", 500)

(***************************************************************************)
(* Properties of the batch control.                                        *)
(***************************************************************************)
\* the batch has run to its end and has returned its response
batchDone ==
    /\ call.fn = "controlMultipleEntitiesHandler"
    /\ frame # NoFrame
    /\ frame.pc = "done"
    /\ result # NoResult

\* the response in the text the batch returned
responseOf(res) == res.returned.result.text.args[4].val

\* the item is an object with a string entity_id and a string action
wellFormed(item) == item.isObject /\ item.entity_id.isStr /\ item.action.isStr

\* the item of position k fails: it is not well-formed, its pair is not
\* valid, or its POST is not answered with status 200
itemFails(k) ==
    LET item == call.arguments.items[k]
    IN  \/ ~wellFormed(item)
        \/ ~validPair(item.entity_id.str, item.action.str)
        \/ ~(call.outcomes[k].kind = "status" /\ call.outcomes[k].status = 200)

\* C26: a batch that has returned has one entry of results for each item, in
\* the order of the items and with the item's position (from 0) as its
\* index; an entry is a failure exactly when its item fails; every
\* well-formed item was handed to controlEntity, whatever failed before it,
\* and every valid pair was posted; the response has one error for each
\* failed item, and no errors member when no item failed.
C26_FailureDoesNotAbort ==
    batchDone
        => LET items == call.arguments.items
               response == responseOf(result)
               results == response.results
               failedItems == {k \in 1..Len(items) : itemFails(k)}
           IN  /\ Len(results) = Len(items)
               /\ \A k \in 1..Len(items) :
                      /\ results[k].index = k - 1
                      /\ results[k].success <=> k \notin failedItems
                      /\ wellFormed(items[k])
                           => /\ results[k].entity_id = items[k].entity_id.str
                              /\ results[k].action = items[k].action.str
                              /\ \E j \in 1..Len(frame.events) :
                                     frame.events[j] = Event("call", k - 1, 0)
               /\ Len(frame.io) =
                      Cardinality({k \in 1..Len(items) :
                                       /\ wellFormed(items[k])
                                       /\ validPair(items[k].entity_id.str,
                                                    items[k].action.str)})
               /\ IF failedItems = {}
                  THEN DOMAIN response = {"results"}
                  ELSE /\ DOMAIN response = {"results", "errors"}
                       /\ Len(response.errors) = Cardinality(failedItems)

\* something that is no object, then light.kitchen on answered with status
\* 500, then light.kitchen on answered with status 200: two failures, two
\* errors, and the third item succeeds
C26_Witness ==
    /\ batchDone
    /\ call.arguments.items =
           << Item(FALSE, NoStrArg, NoStrArg),
              Item(TRUE, StrArg(lightKitchen), StrArg("on")),
              Item(TRUE, StrArg(lightKitchen), StrArg("on")) >>
    /\ call.outcomes =
           << answered200, [kind |-> "status", status |-> 500], answered200 >>
    /\ Len(responseOf(result).results) = 3
    /\ ~responseOf(result).results[1].success
    /\ ~responseOf(result).results[2].success
    /\ responseOf(result).results[3].success
    /\ Len(responseOf(result).errors) = 2
    /\ Len(frame.io) = 2

\* C27: at every moment of a batch at most one request is in flight; a call
\* of controlEntity returns before anything else happens; the calls are in
\* the order of the items; and between two calls there is a pause of 50 ms.
C27_SequentialWithPause ==
    (call.fn = "controlMultipleEntitiesHandler" /\ frame # NoFrame)
        => LET events == frame.events
               calls == {j \in 1..Len(events) : events[j].k = "call"}
           IN  /\ Len(frame.inflight) <= 1
               /\ frame.inflight # << >> => frame.pc = "control"
               /\ \A j \in calls :
                      \/ j = Len(events) /\ frame.pc = "control"
                      \/ /\ j < Len(events)
                         /\ events[j + 1] = Event("return", events[j].i, 0)
               /\ \A j1, j2 \in calls :
                      j1 < j2
                          => /\ events[j1].i < events[j2].i
                             /\ \E m \in (j1 + 1)..(j2 - 1) :
                                    events[m] = Event("pause", events[j1].i, 50)

\* light.kitchen on, something that is no object, light.kitchen on: the
\* first call, its return, the pause, then the second call and its return
C27_Witness ==
    /\ batchDone
    /\ Len(call.arguments.items) = 3
    /\ Len(frame.io) = 2
    /\ frame.events =
           << Event("call", 0, 0), Event("return", 0, 0), Event("pause", 0, 50),
              Event("call", 2, 0), Event("return", 2, 0) >>

(***************************************************************************)
(* Properties of the tool handlers.                                        *)
(***************************************************************************)
\* one of the four handlers has returned
handlerReturned ==
    /\ call.fn \in {"getAllStatesHandler", "getEntityStateHandler",
                    "controlEntityHandler", "controlMultipleEntitiesHandler"}
    /\ result # NoResult

\* the call meets a failure that ends it: the hub does not answer, answers
\* with another status than 200 or with a body that cannot be decoded, an
\* argument is missing or not valid, or the serialization fails
callFails ==
    CASE call.fn = "getAllStatesHandler" ->
             call.st.kind # "ok" \/ ~call.marshalOK
      [] call.fn = "getEntityStateHandler" ->
             \/ ~call.entity_id.isStr
             \/ call.outcome.kind # "ok"
             \/ ~call.marshalOK
      [] call.fn = "controlEntityHandler" ->
             \/ ~call.entity_id.isStr
             \/ ~call.action.isStr
             \/ ~validPair(call.entity_id.str, call.action.str)
             \/ ~(call.outcome.kind = "status" /\ call.outcome.status = 200)
      [] call.fn = "controlMultipleEntitiesHandler" ->
             ~call.arguments.present \/ ~call.arguments.isArray

\* C28: a handler that returns returns no error, whatever failed; its result
\* is an error result exactly when the call met a failure, and the batch
\* marks each failed item in the results of its text result.
C28_FailuresInResult ==
    handlerReturned
        => /\ result.returned.err = nil
           /\ result.returned.result.IsError <=> callFails
           /\ batchDone
                => \A k \in 1..Len(call.arguments.items) :
                       itemFails(k) => ~responseOf(result).results[k].success

\* get_entity_state of light.a, not found by the hub: an error result and
\* no error
C28_Witness ==
    /\ applied("getEntityStateHandler")
    /\ call.entity_id = StrArg(lightA)
    /\ call.outcome.kind = "notfound"
    /\ result.returned.err = nil
    /\ result.returned.result.IsError

\* the filter of the configuration lets the entity through
exposed(cfg, entityID) ==
    /\ \A i \in 1..Len(cfg.EntityBlacklist) :
           ~matchesPattern(cfg.EntityBlacklist[i], entityID, TRUE)
    /\ \/ cfg.EntityFilter = << >>
       \/ \E i \in 1..Len(cfg.EntityFilter) :
              matchesPattern(cfg.EntityFilter[i], entityID, FALSE)

\* C29: a tool returns the state of no entity the filter of the
\* configuration hides: all the states in the result of get_all_states, and
\* the state in the result of get_entity_state, are of entities that pass
\* the blacklist and the whitelist.
C29_HiddenFromEveryTool ==
    /\ (applied("getAllStatesHandler") /\ ~result.returned.result.IsError)
         => \A st \in Range(result.returned.result.text.args[2].val) :
                exposed(config, st.EntityID)
    /\ (applied("getEntityStateHandler") /\ ~result.returned.result.IsError)
         => exposed(config, result.returned.result.text.args[3].val.EntityID)

(***************************************************************************)
(* Properties of the start of the server.                                  *)
(***************************************************************************)
\* C30: when the configuration has no token or no URL after LoadConfig, the
\* process exits with a status that is not 0 and no tool is registered; no
\* tool is registered with an empty token or an empty URL.
C30_NoToolWithoutCredential ==
    applied("main")
        => LET r == result.returned
           IN  /\ (r.config.HAToken = EmptyStr \/ r.config.HAURL = EmptyStr)
                    => r.exit # 0 /\ r.tools = << >>
               /\ r.tools # << >>
                    => r.config.HAToken # EmptyStr /\ r.config.HAURL # EmptyStr

(***************************************************************************)
(* Properties of the documented forms of the batch.                        *)
(***************************************************************************)
\* the arguments are a list of entity id strings, not empty, and one action
entityListForm ==
    /\ call.fn = "controlMultipleEntitiesHandler"
    /\ call.arguments.present
    /\ call.arguments.isArray
    /\ call.arguments.items # << >>
    /\ \A k \in 1..Len(call.arguments.items) :
           "str" \in DOMAIN call.arguments.items[k]
    /\ call.arguments.action.isStr

\* C31: a batch given a list of entity id strings and one action applies
\* the action to each entity of the list: it posts the service of the action
\* for each of them, in the order of the list, and every entry of the
\* results is a success when the hub answers 200.
C31_EntityListForm ==
    (batchDone /\ entityListForm)
        => LET items == call.arguments.items
           IN  /\ Len(frame.io) = Len(items)
               /\ \A k \in 1..Len(items) :
                      /\ frame.io[k].body = [entity_id |-> items[k].str]
                      /\ frame.io[k].endpoint.service = "turn_off"
                      /\ responseOf(result).results[k].success

(***************************************************************************)
(* Properties of the socket fetches.                                       *)
(***************************************************************************)
\* the pcs at which a socket fetch is running
InFetchPcs ==
    {"readInitial", "writeAuth", "readAuthReply", "writeRequest", "readResponse"}

\* the connection has been written a request frame
requested(c) ==
    \E j \in 1..Len(c.sent) : \E r \in 1..Len(RequestTypes) : c.sent[j] = RequestTypes[r]

\* C32: on every connection, a request frame has been written only if the
\* frame read in reply to the auth frame was of type auth_ok, and then after
\* the auth frame; a connection whose reply was of another type is closed,
\* was never written a request frame, and its fetch returned an error; so
\* was a connection closed before any reply was read.
C32_RequestOnlyAfterAuthOk ==
    socket # NoSocket
        => \A i \in 1..Len(socket.conns) :
               LET c == socket.conns[i]
               IN  /\ requested(c)
                        => /\ c.reply = "auth_ok"
                           /\ c.sent = <<"auth", RequestTypes[c.reg]>>
                   /\ c.reply \notin {NoFrameYet, "auth_ok"}
                        => /\ c.closed
                           /\ c.sent = <<"auth">>
                           /\ \E f \in 1..Len(socket.fetches) :
                                  socket.fetches[f] = [reg |-> c.reg, ok |-> FALSE]
                   /\ (c.closed /\ c.reply = NoFrameYet)
                        => /\ ~requested(c)
                           /\ \E f \in 1..Len(socket.fetches) :
                                  socket.fetches[f] = [reg |-> c.reg, ok |-> FALSE]

\* the reply on the connection for the areas was auth_invalid, and the
\* connection for the devices was written its request after auth_ok
C32_Witness ==
    /\ socket # NoSocket
    /\ Len(socket.conns) >= 2
    /\ socket.conns[1].reply = "auth_invalid"
    /\ socket.conns[1].closed
    /\ socket.conns[1].sent = <<"auth">>
    /\ socket.conns[2].reply = "auth_ok"
    /\ socket.conns[2].sent = <<"auth", "config/device_registry/list">>

\* C33: every socket fetch dials once and has at most one connection, which
\* is closed when the fetch has returned, however it returned; at most one
\* connection is open at any time, and only while its fetch is running; a
\* refresh opens at most three, and none is open when it has returned.
C33_ConnectionsClosed ==
    socket # NoSocket
        => LET conns == socket.conns
               open == {i \in 1..Len(conns) : ~conns[i].closed}
           IN  /\ Cardinality(open) <= 1
               /\ open # {}
                    => /\ socket.pc \in InFetchPcs
                       /\ open = {Len(conns)}
                       /\ conns[Len(conns)].reg = socket.reg
               /\ Len(conns) <= 3
               /\ \A r \in 1..Len(SocketRegistries) :
                      /\ Cardinality({i \in 1..Len(conns) : conns[i].reg = r}) <= 1
                      /\ Cardinality({i \in 1..Len(socket.dials) :
                                          socket.dials[i] = r}) <= 1
               /\ \A f \in 1..Len(socket.fetches) :
                      /\ \E i \in 1..Len(socket.dials) :
                             socket.dials[i] = socket.fetches[f].reg
                      /\ \A i \in 1..Len(conns) :
                             conns[i].reg = socket.fetches[f].reg => conns[i].closed
               /\ socket.pc = "done"
                    => /\ open = {}
                       /\ Len(socket.fetches) = Len(SocketRegistries)

\* a refresh has returned after three connections, the first closed after
\* the hub broke it, the last after its list was read
C33_Witness ==
    /\ socket # NoSocket
    /\ socket.pc = "done"
    /\ Len(socket.conns) = 3
    /\ socket.conns[1].broken
    /\ \A i \in 1..3 : socket.conns[i].closed
    /\ socket.fetches[1] = [reg |-> 1, ok |-> FALSE]
    /\ socket.fetches[3] = [reg |-> 3, ok |-> TRUE]

\* C34: a refresh that has taken the exclusive lock releases it in the end,
\* whatever the hub does, a hub that sends nothing on a connection it
\* accepted included.
C34_RefreshTerminates ==
    (socket # NoSocket /\ mu.writer = 1) ~> (mu.writer = NoOne)

\* the area names a state offers, in the order the loop looks at them: the
\* explicit area, then the candidate of the friendly name
offeredNames(state) ==
    LET attrs == state.Attributes
        explicit == IF /\ "area" \in DOMAIN attrs
                       /\ attrs["area"].isStr
                       /\ attrs["area"].str # EmptyStr
                    THEN <<attrs["area"].str>>
                    ELSE << >>
        cand == friendlyNameArea(attrs)
    IN  explicit \o (IF cand.found THEN <<cand.name>> ELSE << >>)

\* the names the lights and switches of a payload offer, in payload order
RECURSIVE offeredInOrder(_)
offeredInOrder(payload) ==
    IF payload = << >>
    THEN << >>
    ELSE (IF isLightOrSwitch(Head(payload).EntityID)
          THEN offeredNames(Head(payload))
          ELSE << >>) \o offeredInOrder(Tail(payload))

firstOffer(offers, areaID) ==
    CHOOSE i \in 1..Len(offers) :
        /\ normalizeAreaID(offers[i]) = areaID
        /\ \A j \in 1..(i - 1) : normalizeAreaID(offers[j]) # areaID

\* C35: in the heuristic area extraction the first occurrence of an area
\* id wins: the area registered under an id has the display name of the
\* first state, in payload order, that normalizes to that id, whatever
\* later states of the same id are named; and only lights and switches
\* contribute, so the ids registered are exactly those their names
\* normalize to.
C35_FirstOccurrenceWins ==
    (applied("extractAreasFromStates") /\ call.st.kind = "ok")
        => LET offers == offeredInOrder(call.st.val)
               areas == Range(result.returned.val)
           IN  /\ ~result.returned.err
               /\ {a.AreaID : a \in areas}
                      = {normalizeAreaID(offers[i]) : i \in 1..Len(offers)}
               /\ \A a \in areas :
                      a.Name = offers[firstOffer(offers, a.AreaID)]
               /\ Len(result.returned.val) = Cardinality(areas)

\* a light with the area "kitchen" and then a switch named "Kitchen Light":
\* the one area registered keeps the name "kitchen"
C35_Witness ==
    /\ applied("extractAreasFromStates")
    /\ call.st.kind = "ok"
    /\ Len(call.st.val) = 2
    /\ call.st.val[1].Attributes = attrsArea(StrAttr(kitchen))
    /\ call.st.val[2].Attributes = attrsNamed(nameKitchenLight)
    /\ result.returned.val = <<HAArea(kitchen, kitchen)>>

\* a registration that binds its entity: it has an area of its own, or a
\* device the devices map knows
resolves(e) ==
    \/ e.AreaID # EmptyStr
    \/ (e.DeviceID # EmptyStr /\ e.DeviceID \in DOMAIN areaCache.devices)

\* C36: the devices map holds no device with an empty area id and the
\* entities map no entity with an empty area id; when a refresh has
\* completed, a device fetched without an area is in the devices map only
\* through another record of its id, an entity none of whose registrations
\* has an area or a mapped device is not in the entities map, and the
\* refresh has completed all the same: the three maps are replaced.
C36_NoEmptyAreaIds ==
    /\ \A d \in DOMAIN areaCache.devices : areaCache.devices[d] # EmptyStr
    /\ \A e \in DOMAIN areaCache.entities : areaCache.entities[e] # EmptyStr
    /\ \A p \in Callers :
           refreshComplete(p)
               => /\ \A d \in Range(locals.devices) :
                         (\A x \in Range(locals.devices) :
                              x.ID = d.ID => x.AreaID = EmptyStr)
                             => d.ID \notin DOMAIN areaCache.devices
                  /\ \A e \in Range(locals.entities) :
                         (\A x \in Range(locals.entities) :
                              x.EntityID = e.EntityID => ~resolves(x))
                             => e.EntityID \notin DOMAIN areaCache.entities
                  /\ replaced = Registries

\* a refresh has completed on a device without an area and on an entity
\* registered with that device and no area: the device and the entity are
\* in neither map, the device and the entity with an area are
C36_Witness ==
    \E p \in Callers :
        /\ refreshComplete(p)
        /\ failed = {}
        /\ HADevice(dev2, EmptyStr) \in Range(locals.devices)
        /\ HAEntity(switchC, dev2, EmptyStr) \in Range(locals.entities)
        /\ DOMAIN areaCache.devices = {dev1}
        /\ DOMAIN areaCache.entities = {lightA}
====
